---- MODULE Spec2Model ----
(***************************************************************************)
(* A model of chiaotu: the merge stage of main (load the cached            *)
(* subscription documents, tag the proxy names with the vendor, merge,     *)
(* deduplicate, group by country) and the line parser (detect_protocol,    *)
(* parse_line_to_node, parse_vmess_config).                                *)
(*                                                                         *)
(* A Rust String is modelled as the sequence of its UTF-8 bytes (numbers   *)
(* 0..255); an Option is the empty sequence (None) or a one-element        *)
(* sequence (Some).                                                        *)
(***************************************************************************)
EXTENDS Integers, Sequences, FiniteSets, TLC

VARIABLES pc, cache_dir, contents, configs, proxies, proxy_groups,
          vmess_src, line, node, attempted, decoded,
          callee, ret, ss_src,
          src_lines, input, nodes,
          files, ops,
          fates, tasks, saves

vars == <<pc, cache_dir, contents, configs, proxies, proxy_groups,
          vmess_src, line, node, attempted, decoded,
          callee, ret, ss_src,
          src_lines, input, nodes,
          files, ops,
          fates, tasks, saves>>

merge_vars == <<cache_dir, contents, configs, proxies, proxy_groups>>

parse_vars == <<vmess_src, line, node, attempted, decoded>>

\* one decoder function applied on its own: its name, what it returned, and the
\* ShadowsocksConfig handed to the validator
call_vars == <<callee, ret, ss_src>>

\* parse_to_nodes: the lines a text is made of, the text, the nodes returned
lines_vars == <<src_lines, input, nodes>>

\* the config directory: what each path holds, and the calls made so far
store_vars == <<files, ops>>

\* download_save_files: what becomes of each URL's request, how far each
\* download task is, and the calls of the save callback per URL
download_vars == <<fates, tasks, saves>>

\* the three together, and their values where none of these is running
io_vars == <<src_lines, input, nodes, files, ops, fates, tasks, saves>>

io_idle ==
  /\ src_lines = <<>>
  /\ input = <<>>
  /\ nodes = <<>>
  /\ files = <<>>
  /\ ops = <<>>
  /\ fates = <<>>
  /\ tasks = <<>>
  /\ saves = <<>>

----------------------------------------------------------------------------
(* Bounds of the model *)

\* the longest proxy list of one cached subscription document
MaxProxies == 2

\* the longest proxy list handed to create_groups_by_country on its own
MaxProxyList == 2

----------------------------------------------------------------------------
(* Option and string helpers *)

None == <<>>

Some(x) == <<x>>

is_some(o) == o # <<>>

SetMin(S) == CHOOSE x \in S : \A y \in S : x <= y

SetMax(S) == CHOOSE x \in S : \A y \in S : y <= x

\* str::starts_with
starts_with(s, p) == Len(s) >= Len(p) /\ SubSeq(s, 1, Len(p)) = p

\* str::contains: p occurs in s as a contiguous run of bytes
contains(s, p) == \E i \in 0..(Len(s) - Len(p)) : SubSeq(s, i + 1, i + Len(p)) = p

\* the length in bytes of the UTF-8 character whose first byte is b
char_width(b) == IF b < 128 THEN 1 ELSE IF b < 224 THEN 2 ELSE IF b < 240 THEN 3 ELSE 4

\* the indices of s at which a character starts (not a continuation byte)
char_starts(s) == {i \in 1..Len(s) : s[i] < 128 \/ s[i] >= 192}

\* s.chars().next(): the first character, as its bytes
first_char(s) == IF s = <<>> THEN None ELSE Some(SubSeq(s, 1, char_width(s[1])))

\* s.chars().last(): the last character, as its bytes
last_char(s) == IF s = <<>> THEN None ELSE Some(SubSeq(s, SetMax(char_starts(s)), Len(s)))

----------------------------------------------------------------------------
(* yaml_utils.rs: Proxy, ProxyGroup, merge_proxies, create_groups_by_country *)

Proxy(name, properties) == [name |-> name, properties |-> properties]

ProxyGroup(name, type, members, timeout, interval) ==
  [name |-> name, type |-> type, proxies |-> members, timeout |-> timeout, interval |-> interval]

url_test == <<117,114,108,45,116,101,115,116>>

select_type == <<115,101,108,101,99,116>>

Germany == <<71,101,114,109,97,110,121>>

Taiwan == <<84,97,105,119,97,110>>

HongKong == <<72,111,110,103,32,75,111,110,103>>

Japan == <<74,97,112,97,110>>

Singapore == <<83,105,110,103,97,112,111,114,101>>

US == <<85,83>>

UK == <<85,75>>

Other == <<79,116,104,101,114>>

DIRECT == <<68,73,82,69,67,84>>

ManualSelect == <<230,137,139,229,138,168,233,128,137,230,139,169>>

Google == <<71,111,111,103,108,101>>

Microsoft == <<77,105,99,114,111,115,111,102,116>>

Apple == <<65,112,112,108,101>>

\* the keywords of the region rules and of the exclusion rule, as UTF-8
kw_de_zh == <<229,190,183,229,155,189>>

kw_de == <<68,69>>

kw_tw_zh == <<229,143,176,230,185,190>>

kw_tw == <<84,87>>

kw_hk_zh == <<233,166,153,230,184,175>>

kw_hk == <<72,75>>

kw_jp_zh == <<230,151,165,230,156,172>>

kw_jp == <<74,80>>

kw_sg_zh == <<230,150,176,229,138,160,229,157,161>>

kw_sg == <<83,71>>

kw_us_zh == <<231,190,142,229,155,189>>

kw_us == <<85,83>>

kw_uk_zh == <<232,139,177,229,155,189>>

kw_uk == <<85,75>>

kw_remaining == <<229,137,169,228,189,153>>

kw_expiry == <<229,136,176,230,156,159>>

\* ProxyGroup::from_country, with the members the loop pushed
from_country(country, members) == ProxyGroup(country, url_test, members, None, Some(60 * 60))

\* variants of bucket: the Japan rule tested before the Hong Kong rule; no
\* exclusion branch; the exclusion branch and the else branch exchanged
bucket_mut_jp_first(name) ==
  IF contains(name, kw_de_zh) \/ contains(name, kw_de) THEN Germany
  ELSE IF contains(name, kw_tw_zh) \/ contains(name, kw_tw) THEN Taiwan
  ELSE IF contains(name, kw_jp_zh) \/ contains(name, kw_jp) THEN Japan
  ELSE IF contains(name, kw_hk_zh) \/ contains(name, kw_hk) THEN HongKong
  ELSE IF contains(name, kw_sg_zh) \/ contains(name, kw_sg) THEN Singapore
  ELSE IF contains(name, kw_us_zh) \/ contains(name, kw_us) THEN US
  ELSE IF contains(name, kw_uk_zh) \/ contains(name, kw_uk) THEN UK
  ELSE IF contains(name, kw_remaining) \/ contains(name, kw_expiry) THEN None
  ELSE Other

bucket_mut_no_exclusion(name) ==
  IF contains(name, kw_de_zh) \/ contains(name, kw_de) THEN Germany
  ELSE IF contains(name, kw_tw_zh) \/ contains(name, kw_tw) THEN Taiwan
  ELSE IF contains(name, kw_hk_zh) \/ contains(name, kw_hk) THEN HongKong
  ELSE IF contains(name, kw_jp_zh) \/ contains(name, kw_jp) THEN Japan
  ELSE IF contains(name, kw_sg_zh) \/ contains(name, kw_sg) THEN Singapore
  ELSE IF contains(name, kw_us_zh) \/ contains(name, kw_us) THEN US
  ELSE IF contains(name, kw_uk_zh) \/ contains(name, kw_uk) THEN UK
  ELSE Other

bucket_mut_exclusion_as_other(name) ==
  IF contains(name, kw_de_zh) \/ contains(name, kw_de) THEN Germany
  ELSE IF contains(name, kw_tw_zh) \/ contains(name, kw_tw) THEN Taiwan
  ELSE IF contains(name, kw_hk_zh) \/ contains(name, kw_hk) THEN HongKong
  ELSE IF contains(name, kw_jp_zh) \/ contains(name, kw_jp) THEN Japan
  ELSE IF contains(name, kw_sg_zh) \/ contains(name, kw_sg) THEN Singapore
  ELSE IF contains(name, kw_us_zh) \/ contains(name, kw_us) THEN US
  ELSE IF contains(name, kw_uk_zh) \/ contains(name, kw_uk) THEN UK
  ELSE IF contains(name, kw_remaining) \/ contains(name, kw_expiry) THEN Other
  ELSE None

\* the group the if/else-if chain of create_groups_by_country pushes a name to;
\* None in the branch that pushes to no group
bucket(name) ==
  IF contains(name, kw_de_zh) \/ contains(name, kw_de) THEN Germany
  ELSE IF contains(name, kw_tw_zh) \/ contains(name, kw_tw) THEN Taiwan
  ELSE IF contains(name, kw_hk_zh) \/ contains(name, kw_hk) THEN HongKong
  ELSE IF contains(name, kw_jp_zh) \/ contains(name, kw_jp) THEN Japan
  ELSE IF contains(name, kw_sg_zh) \/ contains(name, kw_sg) THEN Singapore
  ELSE IF contains(name, kw_us_zh) \/ contains(name, kw_us) THEN US
  ELSE IF contains(name, kw_uk_zh) \/ contains(name, kw_uk) THEN UK
  ELSE IF contains(name, kw_remaining) \/ contains(name, kw_expiry) THEN None
  ELSE Other

\* variant of pushed: a name is put in front of the names pushed before it
RECURSIVE pushed_mut_prepend(_, _)
pushed_mut_prepend(ps, country) ==
  IF ps = <<>> THEN <<>>
  ELSE pushed_mut_prepend(Tail(ps), country)
         \o (IF bucket(Head(ps).name) = country THEN <<Head(ps).name>> ELSE <<>>)

\* the names the loop pushed to one group, in the order of the proxy list
RECURSIVE pushed(_, _)
pushed(ps, country) ==
  IF ps = <<>> THEN <<>>
  ELSE (IF bucket(Head(ps).name) = country THEN <<Head(ps).name>> ELSE <<>>)
         \o pushed(Tail(ps), country)

\* the member list shared by the four select groups
region_names == <<Germany, Taiwan, HongKong, Japan, Singapore, US, UK, Other>>

select_group(name, members) == ProxyGroup(name, select_type, members, None, None)

\* variant of region_groups: a group without members is left out
region_groups_mut_skip_empty(ps) ==
  SelectSeq([i \in 1..Len(region_names) |-> from_country(region_names[i], pushed(ps, region_names[i]))],
            LAMBDA g : g.proxies # <<>>)

\* de, tw, hk, jp, sg, us, uk, others: all eight, as the final vec! lists them
region_groups(ps) ==
  [i \in 1..Len(region_names) |-> from_country(region_names[i], pushed(ps, region_names[i]))]

\* variant of select_groups: Apple without DIRECT
select_groups_mut_apple_no_direct ==
  << select_group(ManualSelect, region_names),
     select_group(Google, region_names),
     select_group(Microsoft, <<DIRECT>> \o region_names),
     select_group(Apple, region_names) >>

\* variant of select_groups: the umbrella group also lists "Korea"
select_groups_mut_korea ==
  << select_group(ManualSelect, region_names \o <<(<<75,111,114,101,97>>)>>),
     select_group(Google, region_names),
     select_group(Microsoft, <<DIRECT>> \o region_names),
     select_group(Apple, <<DIRECT>> \o region_names) >>

\* select, google, ms, apple, in the order of the final vec!
select_groups ==
  << select_group(ManualSelect, region_names),
     select_group(Google, region_names),
     select_group(Microsoft, <<DIRECT>> \o region_names),
     select_group(Apple, <<DIRECT>> \o region_names) >>

create_groups_by_country(ps) == select_groups \o region_groups(ps)

\* merge_proxies: flat_map over the configs, in order
RECURSIVE merge_proxies(_)
merge_proxies(cs) ==
  IF cs = <<>> THEN <<>> ELSE Head(cs).proxies \o merge_proxies(Tail(cs))

\* variant of unique_by_name: the last proxy of a name is the one kept
RECURSIVE unique_by_name_mut_last_wins(_, _)
unique_by_name_mut_last_wins(ps, used) ==
  IF ps = <<>> THEN <<>>
  ELSE IF \E i \in 2..Len(ps) : ps[i].name = Head(ps).name
       THEN unique_by_name_mut_last_wins(Tail(ps), used)
       ELSE <<Head(ps)>> \o unique_by_name_mut_last_wins(Tail(ps), used)

\* itertools unique_by(|proxy| proxy.name.clone()): an element is kept when its
\* key is not yet in the set of keys seen
RECURSIVE unique_by_name(_, _)
unique_by_name(ps, used) ==
  IF ps = <<>> THEN <<>>
  ELSE IF Head(ps).name \in used
       THEN unique_by_name(Tail(ps), used)
       ELSE <<Head(ps)>> \o unique_by_name(Tail(ps), used \cup {Head(ps).name})

----------------------------------------------------------------------------
(* main.rs, the branch without a file argument: the merge stage *)

\* the file stems of the cached documents: "ab", "axb" (same first and last
\* character as "ab") and one whose first character is three bytes long
Vendors == { <<97,98>>, <<97,120,98>>, <<230,156,186,99>> }

\* the proxy names the cached documents use: "HK" and "x"
SrcNames == { <<72,75>>, <<120>> }

BSeq(S, n) == UNION {[1..k -> S] : k \in 0..n}

\* a cached file: absent, not parsable as a Config, or a Config with its proxies;
\* the properties of a proxy are opaque, here a tag that tells the proxies apart
NoFile == [kind |-> "none", proxies |-> <<>>]

BadYaml == [kind |-> "bad", proxies |-> <<>>]

Doc(v, names) ==
  [kind |-> "yaml", proxies |-> [i \in 1..Len(names) |-> Proxy(names[i], <<v, i>>)]]

Docs(v) == {NoFile, BadYaml} \cup {Doc(v, names) : names \in BSeq(SrcNames, MaxProxies)}

Perms(S) == {f \in [1..Cardinality(S) -> S] : \A i, j \in 1..Cardinality(S) : f[i] = f[j] => i = j}

\* format!("{}@{}..{}", name, first, last)
new_name(name, first, last) == name \o <<64>> \o first \o <<46,46>> \o last

\* the body of the loop over config.proxies for one cached document
tag_proxies(ps, vendor) ==
  [i \in 1..Len(ps) |->
     Proxy(new_name(ps[i].name, first_char(vendor)[1], last_char(vendor)[1]), ps[i].properties)]

InitMain ==
  /\ pc = "start"
  /\ cache_dir \in {f \in [Vendors -> UNION {Docs(v) : v \in Vendors}] : \A v \in Vendors : f[v] \in Docs(v)}
  /\ contents = <<>>
  /\ configs = <<>>
  /\ proxies = <<>>
  /\ proxy_groups = <<>>
  /\ io_idle
  /\ vmess_src = None
  /\ line = <<>>
  /\ node = None
  /\ attempted = <<>>
  /\ decoded = None
  /\ callee = ""
  /\ ret = None
  /\ ss_src = None

\* ConfigManager::load_cache: one (file stem, content) pair per .yml file, in the
\* order read_dir yields them, which the file system chooses
load_cache ==
  /\ pc = "start"
  /\ \E order \in Perms({v \in Vendors : cache_dir[v].kind # "none"}) :
       contents' = [i \in 1..Len(order) |-> <<order[i], cache_dir[order[i]]>>]
  /\ pc' = "loop"
  /\ UNCHANGED <<cache_dir, configs, proxies, proxy_groups>>
  /\ UNCHANGED parse_vars
  /\ UNCHANGED call_vars
  /\ UNCHANGED io_vars

\* one iteration of `for (vendor, sub) in contents`
tag_batch ==
  /\ pc = "loop"
  /\ Len(configs) < Len(contents)
  /\ LET vendor == contents[Len(configs) + 1][1]
         sub    == contents[Len(configs) + 1][2]
     IN  IF sub.kind = "bad" \/ (sub.proxies # <<>> /\ vendor = <<>>)
         THEN pc' = "err" /\ UNCHANGED configs
         ELSE /\ configs' = Append(configs, [proxies |-> tag_proxies(sub.proxies, vendor)])
              /\ pc' = "loop"
  /\ UNCHANGED <<cache_dir, contents, proxies, proxy_groups>>
  /\ UNCHANGED parse_vars
  /\ UNCHANGED call_vars
  /\ UNCHANGED io_vars

\* merge_proxies(configs) followed by unique_by on the name
merge_unique ==
  /\ pc = "loop"
  /\ Len(configs) = Len(contents)
  /\ proxies' = unique_by_name(merge_proxies(configs), {})
  /\ pc' = "merged"
  /\ UNCHANGED <<cache_dir, contents, configs, proxy_groups>>
  /\ UNCHANGED parse_vars
  /\ UNCHANGED call_vars
  /\ UNCHANGED io_vars

\* load_rules and the parse of each rule file: either may fail
load_rules ==
  /\ pc = "merged"
  /\ \E r \in {"rules", "err", "panic"} : pc' = r
  /\ UNCHANGED merge_vars
  /\ UNCHANGED parse_vars
  /\ UNCHANGED call_vars
  /\ UNCHANGED io_vars

\* create_groups_by_country(&proxies), whose result goes into the saved config
build_groups ==
  /\ pc = "rules"
  /\ proxy_groups' = create_groups_by_country(proxies)
  /\ pc' = "grouped"
  /\ UNCHANGED <<cache_dir, contents, configs, proxies>>
  /\ UNCHANGED parse_vars
  /\ UNCHANGED call_vars
  /\ UNCHANGED io_vars

NextMain == load_cache \/ tag_batch \/ merge_unique \/ load_rules \/ build_groups

Spec == InitMain /\ [][NextMain]_vars

----------------------------------------------------------------------------
(* create_groups_by_country on its own, over proxy lists drawn from a pool *)

\* names with one keyword, with the keywords of two regions, with an exclusion
\* keyword (alone and beside a region keyword), and names with none
NamePool ==
  { kw_de_zh, kw_de, kw_tw_zh, kw_tw, kw_hk_zh, kw_hk, kw_jp_zh, kw_jp,
    kw_sg_zh, kw_sg, kw_us_zh, kw_us, kw_uk_zh, kw_uk,
    kw_hk_zh \o kw_jp, kw_jp \o kw_hk_zh, kw_uk \o kw_de, kw_uk \o <<32>> \o kw_us,
    kw_sg \o kw_tw_zh, <<65>> \o kw_us,
    kw_remaining, kw_expiry, kw_expiry \o kw_us, kw_hk \o kw_remaining,
    <<120>>, <<>>, <<100,101>>, DIRECT, Other }

InitGroups ==
  /\ pc = "list"
  /\ proxies \in {[i \in 1..Len(names) |-> Proxy(names[i], <<>>)] : names \in BSeq(NamePool, MaxProxyList)}
  /\ cache_dir = <<>>
  /\ contents = <<>>
  /\ configs = <<>>
  /\ proxy_groups = <<>>
  /\ io_idle
  /\ vmess_src = None
  /\ line = <<>>
  /\ node = None
  /\ attempted = <<>>
  /\ decoded = None
  /\ callee = ""
  /\ ret = None
  /\ ss_src = None

group_list ==
  /\ pc = "list"
  /\ proxy_groups' = create_groups_by_country(proxies)
  /\ pc' = "grouped"
  /\ UNCHANGED <<cache_dir, contents, configs, proxies>>
  /\ UNCHANGED parse_vars
  /\ UNCHANGED call_vars
  /\ UNCHANGED io_vars

NextGroups == group_list

SpecGroups == InitGroups /\ [][NextGroups]_vars

----------------------------------------------------------------------------
(* Text primitives of the line parser *)

\* the characters of the Unicode property White_Space, as UTF-8 (str::trim)
white_space ==
  { <<9>>, <<10>>, <<11>>, <<12>>, <<13>>, <<32>>, <<194,133>>, <<194,160>>,
    <<225,154,128>>, <<226,128,168>>, <<226,128,169>>, <<226,128,175>>,
    <<226,129,159>>, <<227,128,128>> }
    \cup { <<226,128,b>> : b \in 128..138 }

ends_with(s, p) == Len(s) >= Len(p) /\ SubSeq(s, Len(s) - Len(p) + 1, Len(s)) = p

RECURSIVE trim_start(_)
trim_start(s) ==
  IF \E w \in white_space : starts_with(s, w)
  THEN trim_start(SubSeq(s, Len(CHOOSE w \in white_space : starts_with(s, w)) + 1, Len(s)))
  ELSE s

RECURSIVE trim_end(_)
trim_end(s) ==
  IF \E w \in white_space : ends_with(s, w)
  THEN trim_end(SubSeq(s, 1, Len(s) - Len(CHOOSE w \in white_space : ends_with(s, w))))
  ELSE s

\* str::trim
trim(s) == trim_end(trim_start(s))

\* str::to_lowercase, for text whose cased characters are ASCII letters
to_lowercase(s) == [i \in 1..Len(s) |-> IF s[i] \in 65..90 THEN s[i] + 32 ELSE s[i]]

\* the one element of a set; in { e : x \in {v} } the value v is computed once,
\* as a let binding of the code is
the(S) == CHOOSE x \in S : TRUE

\* the concatenation of a sequence of texts
RECURSIVE flatten(_)
flatten(q) == the({IF v = <<>> THEN <<>> ELSE Head(v) \o flatten(Tail(v)) : v \in {q}})

\* the byte at index i, -1 outside the text
byte_at(s, i) == IF i >= 1 /\ i <= Len(s) THEN s[i] ELSE -1

----------------------------------------------------------------------------
(* base64: general_purpose::STANDARD and general_purpose::URL_SAFE *)

alphanumeric == [i \in 1..26 |-> 64 + i] \o [i \in 1..26 |-> 96 + i] \o [i \in 1..10 |-> 47 + i]

\* A-Z a-z 0-9 + /
STANDARD == alphanumeric \o <<43, 47>>

\* A-Z a-z 0-9 - _
URL_SAFE == alphanumeric \o <<45, 95>>

\* the six-bit value of a symbol of the alphabet
sextet(alphabet, c) == (CHOOSE i \in 1..64 : alphabet[i] = c) - 1

\* Engine::decode with padding required and trailing bits refused: the length
\* is a multiple of four, '=' stands only as the last or the last two bytes,
\* every other byte is a symbol, and the bits the padding cuts off are zero
decode(alphabet, s) ==
  LET n       == Len(s)
      pad     == IF n >= 1 /\ s[n] = 61 THEN (IF n >= 2 /\ s[n - 1] = 61 THEN 2 ELSE 1) ELSE 0
      m       == n - pad
      symbols == {alphabet[i] : i \in 1..64}
      v(i)    == sextet(alphabet, s[i])
      ok      == /\ (n % 4) = 0
                 /\ \A i \in 1..m : s[i] \in symbols
                 /\ pad = 2 => (v(m) % 16) = 0
                 /\ pad = 1 => (v(m) % 4) = 0
      byte(k) == LET q == 4 * ((k - 1) \div 3)
                     r == (k - 1) % 3
                 IN  IF r = 0 THEN (v(q + 1) * 4) + (v(q + 2) \div 16)
                     ELSE IF r = 1 THEN ((v(q + 2) % 16) * 16) + (v(q + 3) \div 4)
                     ELSE ((v(q + 3) % 4) * 64) + v(q + 4)
  IN  IF ok THEN [ok |-> TRUE, bytes |-> [k \in 1..(((n \div 4) * 3) - pad) |-> byte(k)]]
      ELSE [ok |-> FALSE, bytes |-> <<>>]

\* Engine::encode, with padding
encode(alphabet, bytes) ==
  LET n      == Len(bytes)
      b(i)   == IF i <= n THEN bytes[i] ELSE 0
      sym(k) == LET q == 3 * ((k - 1) \div 4)
                    r == (k - 1) % 4
                IN  IF r = 0 THEN alphabet[(b(q + 1) \div 4) + 1]
                    ELSE IF r = 1 THEN alphabet[((b(q + 1) % 4) * 16) + (b(q + 2) \div 16) + 1]
                    ELSE IF r = 2
                         THEN (IF q + 2 > n THEN 61 ELSE alphabet[((b(q + 2) % 16) * 4) + (b(q + 3) \div 64) + 1])
                         ELSE (IF q + 3 > n THEN 61 ELSE alphabet[(b(q + 3) % 64) + 1])
  IN  [k \in 1..(4 * ((n + 2) \div 3)) |-> sym(k)]

\* String::from_utf8 succeeds: every byte is ASCII, or the first byte of a
\* well-formed sequence, or a continuation byte of one
is_continuation(b) == b \in 128..191

from_utf8_ok(s) ==
  \A i \in 1..Len(s) :
    LET b == s[i] IN
      IF b < 128 THEN TRUE
      ELSE IF is_continuation(b)
        THEN \E j \in {i - 1, i - 2, i - 3} \cap 1..Len(s) :
               /\ s[j] \in 194..244
               /\ char_width(s[j]) > i - j
               /\ \A k \in (j + 1)..i : is_continuation(s[k])
      ELSE IF b \in 194..244
        THEN /\ i + char_width(b) - 1 <= Len(s)
             /\ \A k \in (i + 1)..(i + char_width(b) - 1) : is_continuation(s[k])
             /\ b = 224 => s[i + 1] >= 160
             /\ b = 237 => s[i + 1] <= 159
             /\ b = 240 => s[i + 1] >= 144
             /\ b = 244 => s[i + 1] <= 143
      ELSE FALSE

\* the UTF-8 encoding of a code point
utf8(cp) ==
  IF cp < 128 THEN <<cp>>
  ELSE IF cp < 2048 THEN <<192 + (cp \div 64), 128 + (cp % 64)>>
  ELSE IF cp < 65536 THEN <<224 + (cp \div 4096), 128 + ((cp \div 64) % 64), 128 + (cp % 64)>>
  ELSE <<240 + (cp \div 262144), 128 + ((cp \div 4096) % 64), 128 + ((cp \div 64) % 64), 128 + (cp % 64)>>

----------------------------------------------------------------------------
(* serde_json: from_str::<VmessConfig> and to_string, on UTF-8 text *)

\* the fields of VmessConfig in declaration order, and their serde names
Fields == <<"version", "remarks", "address", "port", "user_id", "alter_id",
            "network", "header_type", "host", "path", "tls">>

FieldSet == {Fields[i] : i \in 1..Len(Fields)}

json_key(f) ==
  CASE f = "version"     -> <<118>>
    [] f = "remarks"     -> <<112,115>>
    [] f = "address"     -> <<97,100,100>>
    [] f = "port"        -> <<112,111,114,116>>
    [] f = "user_id"     -> <<105,100>>
    [] f = "alter_id"    -> <<97,105,100>>
    [] f = "network"     -> <<110,101,116>>
    [] f = "header_type" -> <<116,121,112,101>>
    [] f = "host"        -> <<104,111,115,116>>
    [] f = "path"        -> <<112,97,116,104>>
    [] f = "tls"         -> <<116,108,115>>

Fail == [ok |-> FALSE, val |-> <<>>, next |-> 0]

\* the first index at or after i that holds no JSON whitespace
RECURSIVE skip_ws(_, _)
skip_ws(s, i) == IF byte_at(s, i) \in {32, 9, 10, 13} THEN skip_ws(s, i + 1) ELSE i

\* the number of backslashes that stand directly before index k
RECURSIVE bs_run(_, _)
bs_run(s, k) == IF byte_at(s, k - 1) = 92 THEN 1 + bs_run(s, k - 1) ELSE 0

\* index k holds the backslash that opens an escape
esc_start(s, k) == byte_at(s, k) = 92 /\ (bs_run(s, k) % 2) = 0

hex_val(b) ==
  IF b \in 48..57 THEN b - 48
  ELSE IF b \in 97..102 THEN b - 87
  ELSE IF b \in 65..70 THEN b - 55
  ELSE -1

\* the code unit of the \uXXXX escape at k; -1 when there is none
unit_at(s, k) ==
  IF /\ byte_at(s, k) = 92 /\ byte_at(s, k + 1) = 117
     /\ \A d \in 2..5 : hex_val(byte_at(s, k + d)) >= 0
  THEN (4096 * hex_val(s[k + 2])) + (256 * hex_val(s[k + 3])) + (16 * hex_val(s[k + 4])) + hex_val(s[k + 5])
  ELSE -1

is_high(u) == u \in 55296..56319

is_low(u) == u \in 56320..57343

\* the number of bytes the escape that opens at k takes
esc_len(s, k) ==
  IF byte_at(s, k + 1) # 117 \/ unit_at(s, k) < 0 THEN 2
  ELSE IF is_high(unit_at(s, k)) /\ is_low(unit_at(s, k + 6)) THEN 12
  ELSE 6

\* index k lies inside an escape that opens before it
in_escape(s, k) ==
  \E e \in {j \in (k - 11)..(k - 1) : j >= 1} : esc_start(s, e) /\ k <= e + esc_len(s, e) - 1

\* what the bytes at index k of a string body stand for
piece(s, k) ==
  IF in_escape(s, k) THEN [ok |-> TRUE, bytes |-> <<>>]
  ELSE IF esc_start(s, k) THEN
    LET c == byte_at(s, k + 1)
        u == unit_at(s, k)
    IN  IF c = 34 THEN [ok |-> TRUE, bytes |-> <<34>>]
        ELSE IF c = 92 THEN [ok |-> TRUE, bytes |-> <<92>>]
        ELSE IF c = 47 THEN [ok |-> TRUE, bytes |-> <<47>>]
        ELSE IF c = 98 THEN [ok |-> TRUE, bytes |-> <<8>>]
        ELSE IF c = 102 THEN [ok |-> TRUE, bytes |-> <<12>>]
        ELSE IF c = 110 THEN [ok |-> TRUE, bytes |-> <<10>>]
        ELSE IF c = 114 THEN [ok |-> TRUE, bytes |-> <<13>>]
        ELSE IF c = 116 THEN [ok |-> TRUE, bytes |-> <<9>>]
        ELSE IF c = 117 /\ u >= 0 THEN
          IF is_high(u)
          THEN (IF is_low(unit_at(s, k + 6))
                THEN [ok |-> TRUE,
                      bytes |-> utf8(65536 + ((u - 55296) * 1024) + (unit_at(s, k + 6) - 56320))]
                ELSE [ok |-> FALSE, bytes |-> <<>>])
          ELSE IF is_low(u) THEN [ok |-> FALSE, bytes |-> <<>>]
          ELSE [ok |-> TRUE, bytes |-> utf8(u)]
        ELSE [ok |-> FALSE, bytes |-> <<>>]
  ELSE IF s[k] < 32 THEN [ok |-> FALSE, bytes |-> <<>>]
  ELSE [ok |-> TRUE, bytes |-> <<s[k]>>]

\* a JSON string body with its escapes resolved
unescape_mut_keep_escapes(raw) == [ok |-> TRUE, bytes |-> raw]

unescape(raw) ==
  IF \A k \in 1..Len(raw) : piece(raw, k).ok
  THEN [ok |-> TRUE, bytes |-> flatten([k \in 1..Len(raw) |-> piece(raw, k).bytes])]
  ELSE [ok |-> FALSE, bytes |-> <<>>]

\* the index of the quote that closes the string opened at i; 0 when none does
string_end(s, i) ==
  LET closing == {j \in (i + 1)..Len(s) : s[j] = 34 /\ (bs_run(s, j) % 2) = 0}
  IN  IF closing = {} THEN 0 ELSE SetMin(closing)

\* a JSON string at i: its value and the index after it
parse_str(s, i) ==
  IF byte_at(s, i) # 34 THEN Fail
  ELSE the({ IF e = 0 THEN Fail
             ELSE the({ IF body.ok THEN [ok |-> TRUE, val |-> body.bytes, next |-> e + 1] ELSE Fail
                        : body \in {the({unescape(raw) : raw \in {SubSeq(s, i + 1, e - 1)}})} })
             : e \in {string_end(s, i)} })

\* the first index at or after i that holds no digit
RECURSIVE digits_end(_, _)
digits_end(s, i) == IF byte_at(s, i) \in 48..57 THEN digits_end(s, i + 1) ELSE i

\* the index after the JSON number at i; 0 when there is none
number_end(s, i) ==
  LET p == IF byte_at(s, i) = 45 THEN i + 1 ELSE i
      a == IF byte_at(s, p) = 48 THEN p + 1 ELSE digits_end(s, p)
      b == IF byte_at(s, a) = 46 THEN digits_end(s, a + 1) ELSE a
      x == IF byte_at(s, b) \in {101, 69}
           THEN (IF byte_at(s, b + 1) \in {43, 45} THEN b + 2 ELSE b + 1)
           ELSE b
      c == IF x = b THEN b ELSE digits_end(s, x)
  IN  IF a = p \/ (byte_at(s, p) = 48 /\ byte_at(s, a) \in 48..57) THEN 0
      ELSE IF byte_at(s, a) = 46 /\ b = a + 1 THEN 0
      ELSE IF x # b /\ c = x THEN 0
      ELSE c

\* any JSON value at i, skipped (the value of a key VmessConfig does not know):
\* the index after it, 0 when the text at i is no JSON value
RECURSIVE skip_value(_, _), skip_items(_, _, _), skip_members(_, _, _)
skip_value(s, i) ==
  LET c == byte_at(s, i) IN
    IF c = 34 THEN parse_str(s, i).next
    ELSE IF c = 45 \/ c \in 48..57 THEN number_end(s, i)
    ELSE IF c = 116 THEN (IF i + 3 <= Len(s) /\ SubSeq(s, i, i + 3) = <<116,114,117,101>> THEN i + 4 ELSE 0)
    ELSE IF c = 102 THEN (IF i + 4 <= Len(s) /\ SubSeq(s, i, i + 4) = <<102,97,108,115,101>> THEN i + 5 ELSE 0)
    ELSE IF c = 110 THEN (IF i + 3 <= Len(s) /\ SubSeq(s, i, i + 3) = <<110,117,108,108>> THEN i + 4 ELSE 0)
    ELSE IF c = 91 THEN skip_items(s, skip_ws(s, i + 1), TRUE)
    ELSE IF c = 123 THEN skip_members(s, skip_ws(s, i + 1), TRUE)
    ELSE 0

skip_items(s, i, first) ==
  IF first /\ byte_at(s, i) = 93 THEN i + 1
  ELSE the({ IF v = 0 THEN 0
             ELSE IF byte_at(s, skip_ws(s, v)) = 44 THEN skip_items(s, skip_ws(s, skip_ws(s, v) + 1), FALSE)
             ELSE IF byte_at(s, skip_ws(s, v)) = 93 THEN skip_ws(s, v) + 1
             ELSE 0
             : v \in {skip_value(s, i)} })

skip_members(s, i, first) ==
  IF first /\ byte_at(s, i) = 125 THEN i + 1
  ELSE the({ IF ~key.ok \/ byte_at(s, skip_ws(s, key.next)) # 58 THEN 0
             ELSE the({ IF v = 0 THEN 0
                        ELSE IF byte_at(s, skip_ws(s, v)) = 44
                          THEN skip_members(s, skip_ws(s, skip_ws(s, v) + 1), FALSE)
                        ELSE IF byte_at(s, skip_ws(s, v)) = 125 THEN skip_ws(s, v) + 1
                        ELSE 0
                        : v \in {skip_value(s, skip_ws(s, skip_ws(s, key.next) + 1))} })
             : key \in {parse_str(s, i)} })

NoFields == [g \in FieldSet |-> None]

\* a member that could not be read
BadMember == [ok |-> FALSE, last |-> TRUE, next |-> 0, acc |-> NoFields]

\* what follows a member whose value ends before index vend: a comma and the
\* next member, or the closing brace
after_value(s, vend, acc) ==
  LET sep == skip_ws(s, vend) IN
    IF byte_at(s, sep) = 44
    THEN [ok |-> TRUE, last |-> FALSE, next |-> skip_ws(s, sep + 1), acc |-> acc]
    ELSE IF byte_at(s, sep) = 125
    THEN [ok |-> TRUE, last |-> TRUE, next |-> sep + 1, acc |-> acc]
    ELSE BadMember

\* the value at index at of the member whose key is key: the string of a field
\* not yet read, or any value of a key VmessConfig does not know
member_value(s, key, at, acc) ==
  LET known == {f \in FieldSet : json_key(f) = key} IN
    IF known = {}
    THEN the({ IF vend = 0 THEN BadMember ELSE after_value(s, vend, acc)
               : vend \in {skip_value(s, at)} })
    ELSE the({ IF is_some(acc[f]) THEN BadMember
               ELSE the({ IF ~str.ok THEN BadMember
                          ELSE after_value(s, str.next, [acc EXCEPT ![f] = Some(str.val)])
                          : str \in {parse_str(s, at)} })
               : f \in known })

\* one member at index i: key, colon, value, and what follows
member(s, i, acc) ==
  the({ IF ~key.ok \/ byte_at(s, skip_ws(s, key.next)) # 58 THEN BadMember
        ELSE member_value(s, key.val, skip_ws(s, skip_ws(s, key.next) + 1), acc)
        : key \in {parse_str(s, i)} })

\* the derived Visitor::visit_map of VmessConfig: each known key once, with a
\* string value; unknown keys skipped; at the closing brace every field present
RECURSIVE visit_map(_, _, _, _)
visit_map(s, i, acc, first) ==
  IF first /\ byte_at(s, i) = 125
  THEN Fail
  ELSE the({ IF ~m.ok THEN Fail
             ELSE IF ~m.last THEN visit_map(s, m.next, m.acc, FALSE)
             ELSE IF \A g \in FieldSet : is_some(m.acc[g])
               THEN [ok |-> TRUE, val |-> [g \in FieldSet |-> m.acc[g][1]], next |-> m.next]
             ELSE Fail
             : m \in {member(s, i, acc)} })

\* the derived Visitor::visit_seq of VmessConfig: the fields in declaration
\* order as the elements of an array, all of them strings, and no element more
RECURSIVE visit_seq(_, _, _)
visit_seq(s, i, vals) ==
  the({ IF ~str.ok THEN Fail
        ELSE IF Len(vals) + 1 = Len(Fields)
          THEN (IF byte_at(s, skip_ws(s, str.next)) = 93
                THEN [ok |-> TRUE,
                      val |-> [g \in FieldSet |->
                                 Append(vals, str.val)[CHOOSE k \in 1..Len(Fields) : Fields[k] = g]],
                      next |-> skip_ws(s, str.next) + 1]
                ELSE Fail)
        ELSE IF byte_at(s, skip_ws(s, str.next)) = 44
          THEN the({ visit_seq(s, skip_ws(s, skip_ws(s, str.next) + 1), more)
                     : more \in {Append(vals, str.val)} })
        ELSE Fail
        : str \in {parse_str(s, i)} })

\* serde_json::from_str::<VmessConfig>: a struct is read from a JSON object or
\* from a JSON array, and only whitespace may follow it
from_str(s) ==
  LET i == skip_ws(s, 1) IN
    the({ IF r.ok /\ skip_ws(s, r.next) = Len(s) + 1 THEN Some(r.val) ELSE None
          : r \in { IF byte_at(s, i) = 123
                    THEN visit_map(s, skip_ws(s, i + 1), NoFields, TRUE)
                    ELSE IF byte_at(s, i) = 91
                    THEN visit_seq(s, skip_ws(s, i + 1), <<>>)
                    ELSE Fail } })

hex_digit(d) == IF d < 10 THEN 48 + d ELSE 87 + d

\* how serde_json writes one byte of a string
escape_byte(b) ==
  IF b = 34 THEN <<92, 34>>
  ELSE IF b = 92 THEN <<92, 92>>
  ELSE IF b = 8 THEN <<92, 98>>
  ELSE IF b = 12 THEN <<92, 102>>
  ELSE IF b = 10 THEN <<92, 110>>
  ELSE IF b = 13 THEN <<92, 114>>
  ELSE IF b = 9 THEN <<92, 116>>
  ELSE IF b < 32 THEN <<92, 117, 48, 48, hex_digit(b \div 16), hex_digit(b % 16)>>
  ELSE <<b>>

json_string(v) == <<34>> \o flatten([k \in 1..Len(v) |-> escape_byte(v[k])]) \o <<34>>

\* serde_json::to_string(&VmessConfig): {"v":"..","ps":"..", ... ,"tls":".."}
to_string(config) ==
  <<123>>
    \o flatten([k \in 1..Len(Fields) |->
                  (IF k = 1 THEN <<>> ELSE <<44>>)
                    \o json_string(json_key(Fields[k])) \o <<58>> \o json_string(config[Fields[k]])])
    \o <<125>>

----------------------------------------------------------------------------
(* nodes/vmess.rs: parse_vmess_config *)

vmess_scheme == <<118,109,101,115,115,58,47,47>>

\* the match on one decode attempt: String::from_utf8, then serde_json::from_str
decoded_config(bytes) == IF from_utf8_ok(bytes) THEN from_str(bytes) ELSE None

\* parse_vmess_config: the descriptor (or None) and the alphabets it tried
parse_vmess_config(vmess_url) ==
  IF ~starts_with(vmess_url, vmess_scheme)
  THEN [config |-> None, tried |-> <<>>]
  ELSE the({ the({ IF std.ok
                   THEN [config |-> decoded_config(std.bytes), tried |-> <<"STANDARD">>]
                   ELSE the({ IF url.ok
                              THEN [config |-> decoded_config(url.bytes),
                                    tried |-> <<"STANDARD", "URL_SAFE">>]
                              ELSE [config |-> None, tried |-> <<"STANDARD", "URL_SAFE">>]
                              : url \in {decode(URL_SAFE, encoded_data)} })
                   : std \in {decode(STANDARD, encoded_data)} })
             : encoded_data \in {SubSeq(vmess_url, 9, Len(vmess_url))} })

----------------------------------------------------------------------------
(* node_parser.rs: detect_protocol, parse_line_to_node *)

vmess_word == <<118,109,101,115,115>>

\* variant of detect_protocol: the substring test on the text as it is
detect_protocol_mut_case_sensitive(l) ==
  IF starts_with(trim(l), vmess_scheme) \/ contains(trim(l), vmess_word)
  THEN "Vmess"
  ELSE "Unidentified"

detect_protocol(l) ==
  IF starts_with(trim(l), vmess_scheme) \/ contains(to_lowercase(trim(l)), vmess_word)
  THEN "Vmess"
  ELSE "Unidentified"

\* variant of parse_line_to_node: parse_vmess_config is given the trimmed line
parse_line_to_node_mut_trimmed(l) ==
  IF detect_protocol(l) = "Vmess"
  THEN the({ [node |-> [protocol |-> "Vmess", vmess_config |-> vmess_config],
              attempted |-> <<"Vmess">>]
             : vmess_config \in {parse_vmess_config(trim(l)).config} })
  ELSE [node |-> [protocol |-> "Unidentified", vmess_config |-> None],
        attempted |-> <<>>]

\* parse_line_to_node: the Node, and the decoders the call ran, in order
parse_line_to_node(l) ==
  IF detect_protocol(l) = "Vmess"
  THEN the({ [node |-> [protocol |-> "Vmess", vmess_config |-> vmess_config],
              attempted |-> <<"Vmess">>]
             : vmess_config \in {parse_vmess_config(l).config} })
  ELSE [node |-> [protocol |-> "Unidentified", vmess_config |-> None],
        attempted |-> <<>>]

----------------------------------------------------------------------------
(* The line parser on its inputs: a line as it is read, or a VmessConfig that is
   serialized into a link as test_parse_vmess_config does *)

\* lines given as they are
TextLines ==
  \* the empty line
  { <<>>,
  \* "  " (blank)
    <<32,32>>,
  \* "vmess://"
    <<118,109,101,115,115,58,47,47>>,
  \* " vmess://e30= " (the prefix after white space)
    <<32,118,109,101,115,115,58,47,47,101,51,48,61,32>>,
  \* U+3000 then "vmess://e30="
    <<227,128,128,118,109,101,115,115,58,47,47,101,51,48,61>>,
  \* "VMESS://e30="
    <<86,77,69,83,83,58,47,47,101,51,48,61>>,
  \* "xVmEsS"
    <<120,86,109,69,115,83>>,
  \* "my vmess link"
    <<109,121,32,118,109,101,115,115,32,108,105,110,107>>,
  \* "vmes"
    <<118,109,101,115>>,
  \* "vmes s://"
    <<118,109,101,115,32,115,58,47,47>>,
  \* "vmess:/"
    <<118,109,101,115,115,58,47>>,
  \* "http://a.b/c"
    <<104,116,116,112,58,47,47,97,46,98,47,99>>,
  \* "ss://YWVzLTEyOC1nY206cHc=@h.io:443#n" (SIP002)
    <<115,115,58,47,47,89,87,86,122,76,84,69,121,79,67,49,110,89,50,48,54,99,72,99,61,64,
      104,46,105,111,58,52,52,51,35,110>>,
  \* "ss://YWVzLTEyOC1nY206cHdAaC5pbzo0NDM=" (legacy)
    <<115,115,58,47,47,89,87,86,122,76,84,69,121,79,67,49,110,89,50,48,54,99,72,100,65,
      97,67,53,112,98,122,111,48,78,68,77,61>>,
  \* "trojan://12345678-1234-1234-1234-123456789abc@h.io:443#n"
    <<116,114,111,106,97,110,58,47,47,49,50,51,52,53,54,55,56,45,49,50,51,52,45,49,50,51,
      52,45,49,50,51,52,45,49,50,51,52,53,54,55,56,57,97,98,99,64,104,46,105,111,58,52,52,
      51,35,110>>,
  \* "vless://12345678-1234-1234-1234-123456789abc@h.io:443?type=ws#n"
    <<118,108,101,115,115,58,47,47,49,50,51,52,53,54,55,56,45,49,50,51,52,45,49,50,51,52,
      45,49,50,51,52,45,49,50,51,52,53,54,55,56,57,97,98,99,64,104,46,105,111,58,52,52,51,
      63,116,121,112,101,61,119,115,35,110>>,
  \* "vmess://!!!!" (in neither alphabet)
    <<118,109,101,115,115,58,47,47,33,33,33,33>>,
  \* "vmess://abc" (length not a multiple of four)
    <<118,109,101,115,115,58,47,47,97,98,99>>,
  \* "vmess://AB==" (trailing bits)
    <<118,109,101,115,115,58,47,47,65,66,61,61>>,
  \* "vmess://e30" (padding missing)
    <<118,109,101,115,115,58,47,47,101,51,48>>,
  \* "vmess://e30=" ({} in both alphabets)
    <<118,109,101,115,115,58,47,47,101,51,48,61>>,
  \* "vmess://_-8=" (URL-safe only, bytes ff ef: not UTF-8)
    <<118,109,101,115,115,58,47,47,95,45,56,61>>,
  \* "vmess://w7/Dvw==" (standard only)
    <<118,109,101,115,115,58,47,47,119,55,47,68,118,119,61,61>>,
  \* "vmess://w7_Dvw==" (URL-safe only)
    <<118,109,101,115,115,58,47,47,119,55,95,68,118,119,61,61>>,
  \* "vmess://gGE=" (bytes 80 61: not UTF-8)
    <<118,109,101,115,115,58,47,47,103,71,69,61>> }

\* payloads, as the text that is base64-encoded
Payloads ==
  \* the payload of test_parse_vmess_config, with short values: {"v":"2","ps":"n","add":"h","port":"443","id":"i","aid":"0","net":"ws","type":"none","host":"","path":"/","tls":""}
  { <<123,34,118,34,58,34,50,34,44,34,112,115,34,58,34,110,34,44,34,97,100,100,34,58,34,
      104,34,44,34,112,111,114,116,34,58,34,52,52,51,34,44,34,105,100,34,58,34,105,34,44,
      34,97,105,100,34,58,34,48,34,44,34,110,101,116,34,58,34,119,115,34,44,34,116,121,112,
      101,34,58,34,110,111,110,101,34,44,34,104,111,115,116,34,58,34,34,44,34,112,97,116,
      104,34,58,34,47,34,44,34,116,108,115,34,58,34,34,125>>,
  \* the same with white space, another key order and an unknown key:  { "tls":"", "path":"/", "host":"", "type":"none", "net":"ws", "aid":"0", "id":"i", "port":"443", "add":"h", "ps":"n", "x":[1,{"y":null}], "v":"2" }\n
    <<32,123,32,34,116,108,115,34,58,34,34,44,32,34,112,97,116,104,34,58,34,47,34,44,32,
      34,104,111,115,116,34,58,34,34,44,32,34,116,121,112,101,34,58,34,110,111,110,101,34,
      44,32,34,110,101,116,34,58,34,119,115,34,44,32,34,97,105,100,34,58,34,48,34,44,32,34,
      105,100,34,58,34,105,34,44,32,34,112,111,114,116,34,58,34,52,52,51,34,44,32,34,97,
      100,100,34,58,34,104,34,44,32,34,112,115,34,58,34,110,34,44,32,34,120,34,58,91,49,44,
      123,34,121,34,58,110,117,108,108,125,93,44,32,34,118,34,58,34,50,34,32,125,10>>,
  \* escapes in a value: {"v":"2","ps":"\u65e5\"\\\/\n","add":"h","port":"443","id":"i","aid":"0","net":"ws","type":"none","host":"","path":"/","tls":""}
    <<123,34,118,34,58,34,50,34,44,34,112,115,34,58,34,92,117,54,53,101,53,92,34,92,92,
      92,47,92,110,34,44,34,97,100,100,34,58,34,104,34,44,34,112,111,114,116,34,58,34,52,
      52,51,34,44,34,105,100,34,58,34,105,34,44,34,97,105,100,34,58,34,48,34,44,34,110,101,
      116,34,58,34,119,115,34,44,34,116,121,112,101,34,58,34,110,111,110,101,34,44,34,104,
      111,115,116,34,58,34,34,44,34,112,97,116,104,34,58,34,47,34,44,34,116,108,115,34,58,
      34,34,125>>,
  \* port as a number: {"v":"2","ps":"n","add":"h","port":443,"id":"i","aid":"0","net":"ws","type":"none","host":"","path":"/","tls":""}
    <<123,34,118,34,58,34,50,34,44,34,112,115,34,58,34,110,34,44,34,97,100,100,34,58,34,
      104,34,44,34,112,111,114,116,34,58,52,52,51,44,34,105,100,34,58,34,105,34,44,34,97,
      105,100,34,58,34,48,34,44,34,110,101,116,34,58,34,119,115,34,44,34,116,121,112,101,
      34,58,34,110,111,110,101,34,44,34,104,111,115,116,34,58,34,34,44,34,112,97,116,104,
      34,58,34,47,34,44,34,116,108,115,34,58,34,34,125>>,
  \* port missing: {"v":"2","ps":"n","add":"h","id":"i","aid":"0","net":"ws","type":"none","host":"","path":"/","tls":""}
    <<123,34,118,34,58,34,50,34,44,34,112,115,34,58,34,110,34,44,34,97,100,100,34,58,34,
      104,34,44,34,105,100,34,58,34,105,34,44,34,97,105,100,34,58,34,48,34,44,34,110,101,
      116,34,58,34,119,115,34,44,34,116,121,112,101,34,58,34,110,111,110,101,34,44,34,104,
      111,115,116,34,58,34,34,44,34,112,97,116,104,34,58,34,47,34,44,34,116,108,115,34,58,
      34,34,125>>,
  \* tls missing: {"v":"2","ps":"n","add":"h","port":"443","id":"i","aid":"0","net":"ws","type":"none","host":"","path":"/"}
    <<123,34,118,34,58,34,50,34,44,34,112,115,34,58,34,110,34,44,34,97,100,100,34,58,34,
      104,34,44,34,112,111,114,116,34,58,34,52,52,51,34,44,34,105,100,34,58,34,105,34,44,
      34,97,105,100,34,58,34,48,34,44,34,110,101,116,34,58,34,119,115,34,44,34,116,121,112,
      101,34,58,34,110,111,110,101,34,44,34,104,111,115,116,34,58,34,34,44,34,112,97,116,
      104,34,58,34,47,34,125>>,
  \* port given twice: {"v":"2","ps":"n","add":"h","port":"443","port":"444","id":"i","aid":"0","net":"ws","type":"none","host":"","path":"/","tls":""}
    <<123,34,118,34,58,34,50,34,44,34,112,115,34,58,34,110,34,44,34,97,100,100,34,58,34,
      104,34,44,34,112,111,114,116,34,58,34,52,52,51,34,44,34,112,111,114,116,34,58,34,52,
      52,52,34,44,34,105,100,34,58,34,105,34,44,34,97,105,100,34,58,34,48,34,44,34,110,101,
      116,34,58,34,119,115,34,44,34,116,121,112,101,34,58,34,110,111,110,101,34,44,34,104,
      111,115,116,34,58,34,34,44,34,112,97,116,104,34,58,34,47,34,44,34,116,108,115,34,58,
      34,34,125>>,
  \* text after the object: {"v":"2","ps":"n","add":"h","port":"443","id":"i","aid":"0","net":"ws","type":"none","host":"","path":"/","tls":""}x
    <<123,34,118,34,58,34,50,34,44,34,112,115,34,58,34,110,34,44,34,97,100,100,34,58,34,
      104,34,44,34,112,111,114,116,34,58,34,52,52,51,34,44,34,105,100,34,58,34,105,34,44,
      34,97,105,100,34,58,34,48,34,44,34,110,101,116,34,58,34,119,115,34,44,34,116,121,112,
      101,34,58,34,110,111,110,101,34,44,34,104,111,115,116,34,58,34,34,44,34,112,97,116,
      104,34,58,34,47,34,44,34,116,108,115,34,58,34,34,125,120>>,
  \* the closing brace missing: {"v":"2","ps":"n","add":"h","port":"443","id":"i","aid":"0","net":"ws","type":"none","host":"","path":"/","tls":""
    <<123,34,118,34,58,34,50,34,44,34,112,115,34,58,34,110,34,44,34,97,100,100,34,58,34,
      104,34,44,34,112,111,114,116,34,58,34,52,52,51,34,44,34,105,100,34,58,34,105,34,44,
      34,97,105,100,34,58,34,48,34,44,34,110,101,116,34,58,34,119,115,34,44,34,116,121,112,
      101,34,58,34,110,111,110,101,34,44,34,104,111,115,116,34,58,34,34,44,34,112,97,116,
      104,34,58,34,47,34,44,34,116,108,115,34,58,34,34>>,
  \* a bad escape in a value: {"v":"2","ps":"\s","add":"h","port":"443","id":"i","aid":"0","net":"ws","type":"none","host":"","path":"/","tls":""}
    <<123,34,118,34,58,34,50,34,44,34,112,115,34,58,34,92,115,34,44,34,97,100,100,34,58,
      34,104,34,44,34,112,111,114,116,34,58,34,52,52,51,34,44,34,105,100,34,58,34,105,34,
      44,34,97,105,100,34,58,34,48,34,44,34,110,101,116,34,58,34,119,115,34,44,34,116,121,
      112,101,34,58,34,110,111,110,101,34,44,34,104,111,115,116,34,58,34,34,44,34,112,97,
      116,104,34,58,34,47,34,44,34,116,108,115,34,58,34,34,125>>,
  \* an array of the eleven values: ["2","n","h","443","i","0","ws","none","","/",""]
    <<91,34,50,34,44,34,110,34,44,34,104,34,44,34,52,52,51,34,44,34,105,34,44,34,48,34,
      44,34,119,115,34,44,34,110,111,110,101,34,44,34,34,44,34,47,34,44,34,34,93>>,
  \* an array of ten values: ["2","n","h","443","i","0","ws","none","","/"]
    <<91,34,50,34,44,34,110,34,44,34,104,34,44,34,52,52,51,34,44,34,105,34,44,34,48,34,
      44,34,119,115,34,44,34,110,111,110,101,34,44,34,34,44,34,47,34,93>>,
  \* an array of twelve values: ["2","n","h","443","i","0","ws","none","","/","",""]
    <<91,34,50,34,44,34,110,34,44,34,104,34,44,34,52,52,51,34,44,34,105,34,44,34,48,34,
      44,34,119,115,34,44,34,110,111,110,101,34,44,34,34,44,34,47,34,44,34,34,44,34,34,
      93>>,
  \* an array with a number in it: ["2","n","h",443,"i","0","ws","none","","/",""]
    <<91,34,50,34,44,34,110,34,44,34,104,34,44,52,52,51,44,34,105,34,44,34,48,34,44,34,
      119,115,34,44,34,110,111,110,101,34,44,34,34,44,34,47,34,44,34,34,93>>,
  \* a string: "v"
    <<34,118,34>>,
  \* null: null
    <<110,117,108,108>>,
  \* the empty payload: 
    <<>> }

\* payloads whose URL-safe encoding differs from the standard one
UrlPayloads ==
  \* a payload whose standard encoding has + and /: remarks ">>?" and "~~~": {"v":"2","ps":">>?~~~","add":"h","port":"443","id":"i","aid":"0","net":"ws","type":"none","host":"","path":"/","tls":""}
  { <<123,34,118,34,58,34,50,34,44,34,112,115,34,58,34,62,62,63,126,126,126,34,44,34,97,
      100,100,34,58,34,104,34,44,34,112,111,114,116,34,58,34,52,52,51,34,44,34,105,100,34,
      58,34,105,34,44,34,97,105,100,34,58,34,48,34,44,34,110,101,116,34,58,34,119,115,34,
      44,34,116,121,112,101,34,58,34,110,111,110,101,34,44,34,104,111,115,116,34,58,34,34,
      44,34,112,97,116,104,34,58,34,47,34,44,34,116,108,115,34,58,34,34,125>>,
  \* an array whose standard encoding has /: ["2","???","h","443","i","0","ws","none","","/",""]
    <<91,34,50,34,44,34,63,63,63,34,44,34,104,34,44,34,52,52,51,34,44,34,105,34,44,34,48,
      34,44,34,119,115,34,44,34,110,111,110,101,34,44,34,34,44,34,47,34,44,34,34,93>> }

\* every line the parser is run on
RawLines ==
  TextLines
    \cup {vmess_scheme \o encode(STANDARD, p) : p \in Payloads \cup UrlPayloads}
    \cup {vmess_scheme \o encode(URL_SAFE, p) : p \in UrlPayloads}
    \cup {<<32>> \o vmess_scheme \o encode(STANDARD, p) \o <<10>> : p \in UrlPayloads}

MaxValueLen == 2

\* the characters field values are made of: " \ U+0001 u and U+65E5
ValueChars == { <<34>>, <<92>>, <<1>>, <<117>>, <<230,151,165>> }

BaseConfig ==
  [version |-> <<50>>, remarks |-> <<110>>, address |-> <<104>>, port |-> <<52,52,51>>,
   user_id |-> <<105>>, alter_id |-> <<48>>, network |-> <<119,115>>,
   header_type |-> <<110,111,110,101>>, host |-> <<>>, path |-> <<47>>, tls |-> <<>>]

\* the VmessConfig values: one field of BaseConfig replaced
VmessConfigs ==
  {[BaseConfig EXCEPT ![f] = flatten(w)] : f \in FieldSet, w \in BSeq(ValueChars, MaxValueLen)}

InitParse ==
  /\ \/ /\ pc = "config"
        /\ vmess_src \in {Some(c) : c \in VmessConfigs}
        /\ line = <<>>
     \/ /\ pc = "line"
        /\ vmess_src = None
        /\ line \in RawLines
  /\ node = None
  /\ attempted = <<>>
  /\ decoded = None
  /\ callee = ""
  /\ ret = None
  /\ ss_src = None
  /\ cache_dir = <<>>
  /\ contents = <<>>
  /\ configs = <<>>
  /\ proxies = <<>>
  /\ proxy_groups = <<>>
  /\ io_idle

\* test_parse_vmess_config: the link of a config
encode_vmess ==
  /\ pc = "config"
  /\ \E config_json \in {to_string(vmess_src[1])} :
       line' = vmess_scheme \o encode(STANDARD, config_json)
  /\ pc' = "line"
  /\ UNCHANGED <<vmess_src, node, attempted, decoded>>
  /\ UNCHANGED merge_vars
  /\ UNCHANGED call_vars
  /\ UNCHANGED io_vars

\* a call of parse_line_to_node on the line
parse_line ==
  /\ pc = "line"
  /\ \E parsed \in {parse_line_to_node(line)} :
       /\ node' = Some(parsed.node)
       /\ attempted' = parsed.attempted
  /\ pc' = "parsed"
  /\ UNCHANGED <<vmess_src, line, decoded>>
  /\ UNCHANGED merge_vars
  /\ UNCHANGED call_vars
  /\ UNCHANGED io_vars

\* a call of parse_vmess_config on the line
parse_vmess ==
  /\ pc = "parsed"
  /\ decoded' = Some(parse_vmess_config(line))
  /\ pc' = "decoded"
  /\ UNCHANGED <<vmess_src, line, node, attempted>>
  /\ UNCHANGED merge_vars
  /\ UNCHANGED call_vars
  /\ UNCHANGED io_vars

NextParse == encode_vmess \/ parse_line \/ parse_vmess

SpecParse == InitParse /\ [][NextParse]_vars

----------------------------------------------------------------------------
(* str and Vec operations of the decoders; offsets are byte offsets from 0 *)

\* what a call gives back: a value, or a panic (an index or a slice out of range)
Returned(v) == [panic |-> FALSE, value |-> v]

Panicked == [panic |-> TRUE, value |-> None]

\* str::is_char_boundary
is_char_boundary(s, i) ==
  \/ i = 0
  \/ i = Len(s)
  \/ i > 0 /\ i < Len(s) /\ ~is_continuation(s[i + 1])

\* &s[a..b]
slice(s, a, b) == SubSeq(s, a + 1, b)

\* &s[a..]
slice_from(s, a) == SubSeq(s, a + 1, Len(s))

\* v[i] of a Vec does not panic
in_range(v, i) == i >= 0 /\ i < Len(v)

\* the offsets at which the ASCII character c stands
offsets(s, c) == {i \in 0..(Len(s) - 1) : s[i + 1] = c}

\* str::find(char) and str::rfind(char)
find(s, c) == IF offsets(s, c) = {} THEN None ELSE Some(SetMin(offsets(s, c)))

rfind(s, c) == IF offsets(s, c) = {} THEN None ELSE Some(SetMax(offsets(s, c)))

\* the n-th least element of a set of numbers
nth(S, n) == CHOOSE x \in S : Cardinality({y \in S : y < x}) = n - 1

\* str::split(char), collected: the texts between the separators
split(s, c) ==
  LET at(j) == IF j = 0 THEN -1
               ELSE IF j > Cardinality(offsets(s, c)) THEN Len(s)
               ELSE nth(offsets(s, c), j)
  IN  [j \in 1..(Cardinality(offsets(s, c)) + 1) |-> slice(s, at(j - 1) + 1, at(j))]

\* str::rsplitn(2, char), collected: the text after the last separator, then the
\* text before it; the whole text alone when there is no separator
rsplitn2(s, c) ==
  IF rfind(s, c) = None THEN <<s>>
  ELSE <<slice_from(s, rfind(s, c)[1] + 1), slice(s, 0, rfind(s, c)[1])>>

\* the number a text of decimal digits stands for
RECURSIVE digits_value(_)
digits_value(t) ==
  IF t = <<>> THEN 0 ELSE (10 * digits_value(SubSeq(t, 1, Len(t) - 1))) + (t[Len(t)] - 48)

\* the text without its leading zeros
RECURSIVE trim_zeros(_)
trim_zeros(t) == IF t # <<>> /\ t[1] = 48 THEN trim_zeros(Tail(t)) ELSE t

\* str::parse::<u16>: an optional '+', then one or more ASCII digits, the value
\* at most 65535
parse_u16(t) ==
  LET digits == IF t # <<>> /\ t[1] = 43 THEN Tail(t) ELSE t IN
    IF digits = <<>> \/ \E k \in 1..Len(digits) : digits[k] \notin 48..57 THEN None
    ELSE IF Len(trim_zeros(digits)) > 5 \/ digits_value(trim_zeros(digits)) > 65535 THEN None
    ELSE Some(digits_value(trim_zeros(digits)))

\* urlencoding::decode: each '%' with two hex digits after it is the byte they
\* name, any other '%' stays; fails when the bytes are not UTF-8
percent_decode(t) ==
  LET esc(i) == /\ byte_at(t, i) = 37
                /\ hex_val(byte_at(t, i + 1)) >= 0
                /\ hex_val(byte_at(t, i + 2)) >= 0
      out == flatten([i \in 1..Len(t) |->
                        IF esc(i) THEN <<(16 * hex_val(t[i + 1])) + hex_val(t[i + 2])>>
                        ELSE IF esc(i - 1) \/ esc(i - 2) THEN <<>>
                        ELSE <<t[i]>>])
  IN  IF from_utf8_ok(out) THEN Some(out) ELSE None

----------------------------------------------------------------------------
(* nodes/ss.rs: parse_ss_config and its helpers, validate_ss_config *)

ss_scheme == <<115,115,58,47,47>>

\* "%F0%9F%87%B0%E9%A6%99%E6%B8%AF"
hk_port == <<37,70,48,37,57,70,37,56,55,37,66,48,37,69,57,37,65,54,37,57,57,37,69,54,37,66,56,37,65,70>>

ShadowsocksConfig(server, server_port, method, password, remarks, protocol, obfs, obfs_param) ==
  [server |-> server, server_port |-> server_port, method |-> method,
   password |-> password, remarks |-> remarks, plugin |-> None, plugin_opts |-> None,
   protocol |-> protocol, obfs |-> obfs, obfs_param |-> obfs_param]

UserInfo(method, password, server, port, protocol, obfs, obfs_param) ==
  [method |-> method, password |-> password, server |-> server, port |-> port,
   remarks |-> None, protocol |-> protocol, obfs |-> obfs, obfs_param |-> obfs_param]

\* parse_encoded_port
parse_encoded_port(port_str) ==
  IF starts_with(port_str, <<37>>)
  THEN (IF port_str = hk_port THEN Some(25451)
        ELSE IF percent_decode(port_str) = None THEN None
        ELSE parse_u16(percent_decode(port_str)[1]))
  ELSE parse_u16(port_str)

\* variant of parse_server_port_remarks: the server ends at the first colon
parse_server_port_remarks_mut_first_colon(server_port_remarks) ==
  LET parts            == split(server_port_remarks, 35)
      server_port_part == parts[1]
      remarks          == IF Len(parts) > 1 THEN Some(parts[2]) ELSE None
      last_colon       == find(server_port_part, 58)
      port_str         == slice_from(server_port_part, last_colon[1] + 1)
      port             == IF contains(port_str, <<37>>) THEN parse_encoded_port(port_str)
                          ELSE parse_u16(port_str)
  IN  IF last_colon = None THEN None
      ELSE IF port = None THEN None
      ELSE Some([server |-> slice(server_port_part, 0, last_colon[1]),
                 port |-> port[1], remarks |-> remarks])

\* parse_server_port_remarks: (ServerPortRemarks { server, port }, remarks)
parse_server_port_remarks(server_port_remarks) ==
  LET parts            == split(server_port_remarks, 35)
      server_port_part == parts[1]
      remarks          == IF Len(parts) > 1 THEN Some(parts[2]) ELSE None
      last_colon       == rfind(server_port_part, 58)
      port_str         == slice_from(server_port_part, last_colon[1] + 1)
      port             == IF contains(port_str, <<37>>) THEN parse_encoded_port(port_str)
                          ELSE parse_u16(port_str)
  IN  IF last_colon = None THEN None
      ELSE IF port = None THEN None
      ELSE Some([server |-> slice(server_port_part, 0, last_colon[1]),
                 port |-> port[1], remarks |-> remarks])

\* parse_userinfo; with five fields the code reads parts[5] of a Vec of five
parse_userinfo(userinfo_str) ==
  LET parts    == split(userinfo_str, 58)
      n        == Len(parts)
      method   == parts[1]
      password == parts[2]
  IN  IF n < 2 THEN Returned(None)
      ELSE IF n >= 4 THEN
        IF n = 4 THEN
          (IF parse_u16(parts[4]) = None THEN Returned(None)
           ELSE Returned(Some(UserInfo(method, password, parts[3], parse_u16(parts[4])[1],
                                       None, None, None))))
        ELSE IF n = 5 THEN
          (IF ~in_range(parts, 5) THEN Panicked
           ELSE IF parse_u16(parts[6]) = None THEN Returned(None)
           ELSE Returned(Some(UserInfo(method, password, parts[5], parse_u16(parts[6])[1],
                                       Some(parts[3]), Some(parts[4]), None))))
        ELSE
          (IF parse_u16(parts[n]) = None THEN Returned(None)
           ELSE Returned(Some(UserInfo(method, password, parts[n - 1], parse_u16(parts[n])[1],
                                       IF n > 2 THEN Some(parts[3]) ELSE None,
                                       IF n > 3 THEN Some(parts[4]) ELSE None,
                                       IF n > 4 THEN Some(parts[5]) ELSE None))))
      ELSE Returned(Some(UserInfo(method, password, <<>>, 0, None, None, None)))

\* variant of userinfo_decode: the URL-safe alphabet is tried as well
userinfo_decode_mut_url_safe(base64_part) ==
  IF decode(STANDARD, base64_part).ok THEN decode(STANDARD, base64_part)
  ELSE decode(URL_SAFE, base64_part)

\* the base64 step of parse_sip002_ss_format
userinfo_decode(base64_part) == decode(STANDARD, base64_part)

\* parse_sip002_ss_format
parse_sip002_ss_format(url_part) ==
  LET at_pos      == find(url_part, 64)
      base64_part == slice(url_part, 0, at_pos[1])
      server_part == slice_from(url_part, at_pos[1] + 1)
  IN  IF at_pos = None THEN Returned(None)
      ELSE the({ IF ~userinfo_bytes.ok \/ ~from_utf8_ok(userinfo_bytes.bytes) THEN Returned(None)
                 ELSE the({ IF userinfo.panic THEN Panicked
                            ELSE IF userinfo.value = None THEN Returned(None)
                            ELSE the({ IF spr = None THEN Returned(None)
                                       ELSE Returned(Some(ShadowsocksConfig(
                                              spr[1].server, spr[1].port,
                                              userinfo.value[1].method, userinfo.value[1].password,
                                              spr[1].remarks, userinfo.value[1].protocol,
                                              userinfo.value[1].obfs, userinfo.value[1].obfs_param)))
                                       : spr \in {parse_server_port_remarks(server_part)} })
                            : userinfo \in {parse_userinfo(userinfo_bytes.bytes)} })
                 : userinfo_bytes \in {userinfo_decode(base64_part)} })

\* parse_legacy_ss_format
parse_legacy_ss_format(url_part) ==
  LET parts               == rsplitn2(url_part, 58)
      userpass_part       == parts[2]
      server_port_remarks == parts[1]
      userpass_parts      == split(userpass_part, 58)
  IN  IF Len(parts) # 2 THEN Returned(None)
      ELSE IF Len(userpass_parts) # 2 THEN Returned(None)
      ELSE the({ IF spr = None THEN Returned(None)
                 ELSE Returned(Some(ShadowsocksConfig(
                        spr[1].server, spr[1].port, userpass_parts[1], userpass_parts[2],
                        spr[1].remarks, None, None, None)))
                 : spr \in {parse_server_port_remarks(server_port_remarks)} })

\* variant of parse_ss_config: the slice is taken before the prefix is tested
parse_ss_config_mut_slice_first(ss_url) ==
  IF ~(5 <= Len(ss_url) /\ is_char_boundary(ss_url, 5)) THEN Panicked
  ELSE IF ~starts_with(ss_url, ss_scheme) THEN Returned(None)
  ELSE IF contains(slice_from(ss_url, 5), <<64>>)
    THEN parse_legacy_ss_format(slice_from(ss_url, 5))
  ELSE parse_sip002_ss_format(slice_from(ss_url, 5))

\* parse_ss_config
parse_ss_config(ss_url) ==
  IF ~starts_with(ss_url, ss_scheme) THEN Returned(None)
  ELSE IF ~is_char_boundary(ss_url, 5) THEN Panicked
  ELSE IF contains(slice_from(ss_url, 5), <<64>>)
    THEN parse_legacy_ss_format(slice_from(ss_url, 5))
  ELSE parse_sip002_ss_format(slice_from(ss_url, 5))

\* variant of validate_ss_config: port 0 passes
validate_ss_config_mut_port_zero(config) ==
  /\ config.server # <<>>
  /\ config.server_port <= 65535
  /\ config.method # <<>>
  /\ config.password # <<>>

\* validate_ss_config
validate_ss_config(config) ==
  /\ config.server # <<>>
  /\ config.server_port > 0
  /\ config.server_port <= 65535
  /\ config.method # <<>>
  /\ config.password # <<>>

----------------------------------------------------------------------------
(* nodes/trojan.rs and nodes/vless.rs: parse_trojan_config, parse_vless_config.
   Both files are left out of the build by nodes/mod.rs and do not type-check
   as they stand; they are modelled as they read. Where a call has no type
   (parse_server_port_query is handed the ServerPortQuery that
   parse_server_query_remarks returned) the model keeps that server and port
   and takes the query parse_server_port_query always returns, String::new(). *)

trojan_scheme == <<116,114,111,106,97,110,58,47,47>>

vless_scheme == <<118,108,101,115,115,58,47,47>>

\* char::is_ascii_hexdigit
is_ascii_hexdigit(b) == hex_val(b) >= 0

\* extract_uuid, the same in both files
extract_uuid(part) ==
  LET cleaned == trim(part) IN
    IF Len(cleaned) # 32 /\ Len(cleaned) # 36 THEN None
    ELSE IF \A k \in 1..Len(cleaned) : is_ascii_hexdigit(cleaned[k]) \/ cleaned[k] = 45
      THEN Some(cleaned)
    ELSE None

\* parse_server_port_query_with_query, the same in both files
parse_server_port_query_with_query(server_port_query, additional_query, remarks) ==
  LET full_query       == IF additional_query = <<>> THEN server_port_query
                          ELSE server_port_query \o <<38>> \o additional_query
      server_port_part == split(full_query, 63)[1]
      last_colon       == rfind(server_port_part, 58)
      port             == parse_u16(slice_from(server_port_part, last_colon[1] + 1))
  IN  IF last_colon = None THEN None
      ELSE IF port = None THEN None
      ELSE Some([server |-> slice(server_port_part, 0, last_colon[1]),
                 port |-> port[1], remarks |-> remarks])

\* urlencoding::decode(text).ok_or_else(|_| text.to_string())?, which has no type
\* as written (a Result has no ok_or_else): read as the fallback its closure
\* names, the text itself when decoding fails, and not as a return
decode_or_raw(text) == IF percent_decode(text) = None THEN text ELSE percent_decode(text)[1]

\* parse_server_query_remarks, the same in both files
parse_server_query_remarks(server_query_remarks) ==
  LET parts            == split(server_query_remarks, 63)
      server_port_part == parts[1]
      query            == IF Len(parts) > 1 THEN parts[2] ELSE <<>>
      hash_pos         == find(server_port_part, 35)
  IN  IF hash_pos = None
      THEN parse_server_port_query_with_query(server_port_part, query, None)
      ELSE parse_server_port_query_with_query(
             slice(server_port_part, 0, hash_pos[1]), query,
             Some(decode_or_raw(slice_from(server_port_part, hash_pos[1] + 1))))

\* param.splitn(2, '='): the key, and the value when there is an '='
key_of(param) == IF find(param, 61) = None THEN param ELSE slice(param, 0, find(param, 61)[1])

value_of(param) == IF find(param, 61) = None THEN None ELSE Some(slice_from(param, find(param, 61)[1] + 1))

\* the value as text, empty when the token has no '='
value_text(param) == IF value_of(param) = None THEN <<>> ELSE value_of(param)[1]

\* parse_query_params of trojan.rs: the last token of a key decides
parse_query_params(query) ==
  LET params   == split(query, 38)
      last(k)  == LET at == {i \in 1..Len(params) : key_of(params[i]) = k}
                  IN  IF query = <<>> \/ at = {} THEN None ELSE Some(params[SetMax(at)])
      insecure == last(<<97,108,108,111,119,73,110,115,101,99,117,114,101>>)
      peer     == last(<<112,101,101,114>>)
      sni      == last(<<115,110,105>>)
      network  == last(<<110,101,116,119,111,114,107>>)
  IN  [allow_insecure |-> insecure # None /\ value_of(insecure[1]) = Some(<<49>>),
       peer    |-> IF peer = None THEN None ELSE Some(value_text(peer[1])),
       sni     |-> IF sni = None THEN None ELSE Some(decode_or_raw(value_text(sni[1]))),
       network |-> IF network = None THEN None ELSE Some(value_text(network[1]))]

\* parse_trojan_config
parse_trojan_config(trojan_url) ==
  IF ~starts_with(trojan_url, trojan_scheme) THEN Returned(None)
  ELSE IF ~is_char_boundary(trojan_url, 8) THEN Panicked
  ELSE LET url_part == slice_from(trojan_url, 8)
           at_pos   == find(url_part, 64)
           password == extract_uuid(slice(url_part, 0, at_pos[1]))
           server   == parse_server_query_remarks(slice_from(url_part, at_pos[1] + 1))
           params   == parse_query_params(<<>>)
       IN  IF at_pos = None THEN Returned(None)
           ELSE IF password = None THEN Returned(None)
           ELSE IF server = None THEN Returned(None)
           ELSE Returned(Some([server |-> server[1].server, server_port |-> server[1].port,
                               password |-> password[1], remarks |-> server[1].remarks,
                               allow_insecure |-> params.allow_insecure, sni |-> params.sni,
                               peer |-> params.peer, network |-> params.network]))

\* the query key of each field of the QueryParams of vless.rs
vless_keys ==
  [type |-> <<116,121,112,101>>,
   encryption |-> <<101,110,99,114,121,112,116,105,111,110>>,
   host |-> <<104,111,115,116>>,
   path |-> <<112,97,116,104>>,
   header_type |-> <<104,101,97,100,101,114,84,121,112,101>>,
   quic_security |-> <<113,117,105,99,83,101,99,117,114,105,116,121>>,
   service_name |-> <<115,101,114,118,105,99,101,78,97,109,101>>,
   security |-> <<115,101,99,117,114,105,116,121>>,
   flow |-> <<102,108,111,119>>,
   packet_encoding |-> <<112,97,99,107,101,116,69,110,99,111,100,105,110,103>>,
   fp |-> <<102,112>>,
   sid |-> <<115,105,100>>,
   pbk |-> <<112,98,107>>,
   insecure |-> <<105,110,115,101,99,117,114,101>>,
   sni |-> <<115,110,105>>]

\* parse_query_params of vless.rs: the last token of a key decides; a token
\* without '=' is read as the empty value
vless_parse_query_params(query) ==
  LET params  == split(query, 38)
      last(k) == LET at == {i \in 1..Len(params) : key_of(params[i]) = k}
                 IN  IF query = <<>> \/ at = {} THEN None
                     ELSE Some(value_text(params[SetMax(at)]))
  IN  [f \in DOMAIN vless_keys |-> last(vless_keys[f])]

\* "tcp"
tcp == <<116,99,112>>

\* build_transport_config
build_transport_config(params) ==
  IF params.type = None /\ params.host = None /\ params.path = None THEN None
  ELSE Some([type   |-> IF params.type = None THEN tcp ELSE params.type[1],
             path   |-> params.path,
             host   |-> params.host,
             header |-> IF params.header_type = None THEN None
                        ELSE Some([type |-> params.header_type[1]])])

\* build_tls_config
build_tls_config(params) ==
  IF params.quic_security = None /\ params.service_name = None /\ params.security = None
  THEN None
  ELSE Some([enabled     |-> params.quic_security # None \/ params.service_name # None,
             server_name |-> params.sni,
             fingerprint |-> params.fp,
             alpn        |-> None])

\* the VlessConfig parse_vless_config builds; params.network, which QueryParams
\* does not have, is read as None
VlessConfig(server, server_port, uuid, remarks, params) ==
  [server |-> server, server_port |-> server_port, uuid |-> uuid,
   encryption |-> params.encryption, transport |-> build_transport_config(params),
   network |-> None, tls |-> build_tls_config(params), flow |-> params.flow,
   packet_encoding |-> params.packet_encoding, remarks |-> remarks,
   fingerprint |-> params.fp, sid |-> params.sid, pbk |-> params.pbk,
   service_name |-> params.service_name, security |-> params.security,
   insecure |-> params.insecure = Some(<<49>>), sni |-> params.sni]

\* parse_vless_config
parse_vless_config(vless_url) ==
  IF ~starts_with(vless_url, vless_scheme) THEN Returned(None)
  ELSE IF ~is_char_boundary(vless_url, 7) THEN Panicked
  ELSE LET url_part == slice_from(vless_url, 7)
           at_pos   == find(url_part, 64)
           uuid     == extract_uuid(slice(url_part, 0, at_pos[1]))
           server   == parse_server_query_remarks(slice_from(url_part, at_pos[1] + 1))
           params   == vless_parse_query_params(<<>>)
       IN  IF at_pos = None THEN Returned(None)
           ELSE IF uuid = None THEN Returned(None)
           ELSE IF server = None THEN Returned(None)
           ELSE Returned(Some(VlessConfig(server[1].server, server[1].port, uuid[1],
                                          server[1].remarks, params)))

\* str::chars().count()
chars_count(s) == Cardinality({i \in 1..Len(s) : ~is_continuation(s[i])})

\* is_valid_uuid, the same in both files
is_valid_uuid(uuid) ==
  /\ chars_count(uuid) = 32 \/ chars_count(uuid) = 36
  /\ \A k \in 1..Len(uuid) : is_ascii_hexdigit(uuid[k]) \/ uuid[k] = 45

\* validate_trojan_config
validate_trojan_config(config) ==
  /\ config.server # <<>>
  /\ config.server_port > 0
  /\ config.server_port <= 65535
  /\ Len(config.password) >= 32
  /\ is_valid_uuid(config.password)

\* validate_vless_config
validate_vless_config(config) ==
  /\ config.server # <<>>
  /\ config.server_port > 0
  /\ config.server_port <= 65535
  /\ Len(config.uuid) >= 32
  /\ is_valid_uuid(config.uuid)

----------------------------------------------------------------------------
(* The decoders applied one at a time, each on inputs of its own kind: a whole
   line, the decoded userinfo of a SIP002 link, the host:port segment of a
   Shadowsocks link, or a ShadowsocksConfig, which is validated or written out
   as a link *)

\* the most fields a decoded userinfo is given
MaxFields == 7

\* the fields a decoded userinfo is made of: "m" and "443"
FieldTokens == { <<109>>, <<52,52,51>> }

RECURSIVE join(_)
\* the fields with ':' between them
join(fields) ==
  IF Len(fields) = 0 THEN <<>>
  ELSE IF Len(fields) = 1 THEN fields[1]
  ELSE fields[1] \o <<58>> \o join(Tail(fields))

\* the texts parse_userinfo is run on
UserinfoTexts == {join(fields) : fields \in BSeq(FieldTokens, MaxFields)}

\* hosts: none, "h", "::1", "[::1]"
SegmentHosts == { <<>>, <<104>>, <<58,58,49>>, <<91,58,58,49,93>> }

\* ports: none, "0", "8388", "+80", "65535", "65536", "x", "%38%30", "8%30",
\* "%41", "%F0", "%3" and the token of test_parse_encoded_port
SegmentPorts ==
  { <<>>, <<48>>, <<56,51,56,56>>, <<43,56,48>>, <<54,53,53,51,53>>, <<54,53,53,51,54>>,
    <<120>>, <<37,51,56,37,51,48>>, <<56,37,51,48>>, <<37,52,49>>, <<37,70,48>>, <<37,51>>,
    hk_port }

\* what follows the port: nothing, "#", "#r", "#a#b", "#a%20b", "#a:b"
SegmentTails ==
  { <<>>, <<35>>, <<35,114>>, <<35,97,35,98>>, <<35,97,37,50,48,98>>, <<35,97,58,98>> }

\* the segments parse_server_port_remarks is run on; the last three have no colon
Segments ==
  {host \o <<58>> \o port \o tail :
     host \in SegmentHosts, port \in SegmentPorts, tail \in SegmentTails}
    \cup { <<>>, <<104>>, <<104,35,114>> }

RECURSIVE decimal(_)
\* u16::to_string
decimal(n) == IF n < 10 THEN <<48 + n>> ELSE decimal(n \div 10) \o <<48 + (n % 10)>>

\* the descriptors that are validated and written out as links
SsConfigs ==
  {ShadowsocksConfig(server, server_port, method, password, remarks, None, None, None) :
     server \in { <<>>, <<104,107,49,49,46,99,120,107,46,108,111,108>> },
     server_port \in {0, 1, 25451, 65535},
     method \in { <<>>, <<97,101,115,45,49,50,56,45,103,99,109>> },
     password \in { <<>>, <<57,52,51,98,50,56,48,49,45,97,97,54,97,45,52,97,50,48,45,98,54,57,48,45,52,101,51,55,55,100,99,102,99,57,50,101>> },
     remarks \in {None, Some(<<77,121,83,101,114,118,101,114>>)}}

\* "#" and the remarks, when there are any
remarks_suffix(config) == IF config.remarks = None THEN <<>> ELSE <<35>> \o config.remarks[1]

\* the SIP002 link of a descriptor, as test_parse_sip002_format writes it
sip002_link(config) ==
  ss_scheme \o encode(STANDARD, config.method \o <<58>> \o config.password) \o <<64>>
    \o config.server \o <<58>> \o decimal(config.server_port) \o remarks_suffix(config)

\* the legacy link of a descriptor, as test_parse_legacy_format writes it
legacy_link(config) ==
  ss_scheme \o config.method \o <<58>> \o config.password \o <<64>>
    \o config.server \o <<58>> \o decimal(config.server_port) \o remarks_suffix(config)

\* the UUID of test_parse_trojan_config
TrojanUuid == <<102,57,97,100,54,57,97,97,45,98,98,53,56,45,52,56,98,98,45,57,51,100,55,45,52,55,97,56,101,57,51,54,53,49,100,52>>

\* the queries of the Trojan links
TrojanQueries ==
  {
  \* "allowInsecure=1&peer=cdn.x.com&sni=cdn.x.com" (the query of test_parse_trojan_config)
    <<97,108,108,111,119,73,110,115,101,99,117,114,101,61,49,38,112,101,101,114,61,99,100,110,46,120,46,99,111,109,38,115,110,105,61,99,100,110,46,120,46,99,111,109>>,
  \* "allowInsecure=0&peer=cdn.x.com" (allowInsecure other than 1)
    <<97,108,108,111,119,73,110,115,101,99,117,114,101,61,48,38,112,101,101,114,61,99,100,110,46,120,46,99,111,109>>,
  \* "allowInsecure=1&zz=1" (an unknown key)
    <<97,108,108,111,119,73,110,115,101,99,117,114,101,61,49,38,122,122,61,49>>,
  \* "sni=cdn.x.com" (no allowInsecure)
    <<115,110,105,61,99,100,110,46,120,46,99,111,109>> }

\* the Trojan link of a UUID, a host, a port and a query
trojan_link(uuid, host, port, query) ==
  trojan_scheme \o uuid \o <<64>> \o host \o <<58>> \o decimal(port) \o <<63>> \o query

\* "host"
TrojanHost == <<104,111,115,116>>

TrojanPort == 12068

\* the credentials put in front of '@' and into the descriptors that are validated
Credentials ==
  {
  \* the UUID of the tests, 36 characters
    <<102,57,97,100,54,57,97,97,45,98,98,53,56,45,52,56,98,98,45,57,51,100,55,45,52,55,97,56,101,57,51,54,53,49,100,52>>,
  \* the same in upper case
    <<70,57,65,68,54,57,65,65,45,66,66,53,56,45,52,56,66,66,45,57,51,68,55,45,52,55,65,56,69,57,51,54,53,49,68,52>>,
  \* 32 hex digits
    <<102,57,97,100,54,57,97,97,98,98,53,56,52,56,98,98,57,51,100,55,52,55,97,56,101,57,51,54,53,49,100,52>>,
  \* 36 hyphens
    <<45,45,45,45,45,45,45,45,45,45,45,45,45,45,45,45,45,45,45,45,45,45,45,45,45,45,45,45,45,45,45,45,45,45,45,45>>,
  \* 35 characters
    <<102,57,97,100,54,57,97,97,45,98,98,53,56,45,52,56,98,98,45,57,51,100,55,45,52,55,97,56,101,57,51,54,53,49,100>>,
  \* 37 characters
    <<102,57,97,100,54,57,97,97,45,98,98,53,56,45,52,56,98,98,45,57,51,100,55,45,52,55,97,56,101,57,51,54,53,49,100,52,48>>,
  \* 36 characters, one not a hex digit
    <<102,57,97,100,54,57,97,97,45,98,98,53,56,45,52,56,98,98,45,57,51,100,55,45,52,55,97,56,101,57,51,54,53,49,100,103>>,
  \* 36 characters, one of three bytes
    <<102,57,97,100,54,57,97,97,45,98,98,53,56,45,52,56,98,98,45,57,51,100,55,45,52,55,97,56,101,57,51,54,53,49,100,230,151,165>>,
  \* 31 characters in 32 bytes
    <<102,57,97,100,54,57,97,97,98,98,53,56,52,56,98,98,57,51,100,55,52,55,97,56,101,57,51,54,53,49,195,169>>,
  \* the UUID between spaces
    <<32,102,57,97,100,54,57,97,97,45,98,98,53,56,45,52,56,98,98,45,57,51,100,55,45,52,55,97,56,101,57,51,54,53,49,100,52,32>>,
  \* 34 characters between spaces, 36 in all
    <<32,102,57,97,100,54,57,97,97,45,98,98,53,56,45,52,56,98,98,45,57,51,100,55,45,52,55,97,56,101,57,51,54,53,49,32>>,
  \* nothing
    <<>> }

\* a Trojan or VLESS link of a credential, with the host, the port and no query
credential_link(scheme, credential) ==
  scheme \o credential \o <<64>> \o TrojanHost \o <<58>> \o decimal(TrojanPort)

\* the descriptors handed to validate_trojan_config
TrojanConfigs ==
  {[server |-> server, server_port |-> server_port, password |-> password,
    remarks |-> None, allow_insecure |-> FALSE, sni |-> None, peer |-> None,
    network |-> None] :
     server \in { <<>>, TrojanHost }, server_port \in {0, 1, 65535}, password \in Credentials}

\* the queries of the VLESS links
VlessQueries ==
  {
  \* ""
    <<>>,
  \* "type=ws"
    <<116,121,112,101,61,119,115>>,
  \* "host=a.b"
    <<104,111,115,116,61,97,46,98>>,
  \* "path=/x"
    <<112,97,116,104,61,47,120>>,
  \* "headerType=none"
    <<104,101,97,100,101,114,84,121,112,101,61,110,111,110,101>>,
  \* "security=tls"
    <<115,101,99,117,114,105,116,121,61,116,108,115>>,
  \* "quicSecurity=none"
    <<113,117,105,99,83,101,99,117,114,105,116,121,61,110,111,110,101>>,
  \* "serviceName=g"
    <<115,101,114,118,105,99,101,78,97,109,101,61,103>>,
  \* "encryption=none&flow=x"
    <<101,110,99,114,121,112,116,105,111,110,61,110,111,110,101,38,102,108,111,119,61,120>>,
  \* "sni=a.b&fp=firefox&insecure=1"
    <<115,110,105,61,97,46,98,38,102,112,61,102,105,114,101,102,111,120,38,105,110,115,101,99,117,114,101,61,49>>,
  \* "type=ws&security=tls&headerType=none"
    <<116,121,112,101,61,119,115,38,115,101,99,117,114,105,116,121,61,116,108,115,38,104,101,97,100,101,114,84,121,112,101,61,110,111,110,101>>,
  \* "type"
    <<116,121,112,101>>,
  \* "zz=1&path=/x&path="
    <<122,122,61,49,38,112,97,116,104,61,47,120,38,112,97,116,104,61>> }

\* the descriptors handed to validate_vless_config
VlessConfigs ==
  {VlessConfig(server, server_port, uuid, None, vless_parse_query_params(<<>>)) :
     server \in { <<>>, TrojanHost }, server_port \in {0, 1, 65535}, uuid \in Credentials}

\* what follows the port of a Trojan or VLESS link: nothing, "?allowInsecure=1",
\* "?type=ws&security=tls"
SegmentQueries ==
  { <<>>, <<63>> \o <<97,108,108,111,119,73,110,115,101,99,117,114,101,61,49>>, <<63>> \o <<116,121,112,101,61,119,115,38,115,101,99,117,114,105,116,121,61,116,108,115>> }

\* the remarks of a Trojan or VLESS link: none, "#", "#r", "#a%20b", "#%F0", "#a#b"
SegmentRemarks ==
  { <<>>, <<35>>, <<35,114>>, <<35,97,37,50,48,98>>, <<35,37,70,48>>, <<35,97,35,98>> }

\* the text after '@' of a Trojan or VLESS link; the last two have no port
QuerySegments ==
  {TrojanHost \o <<58>> \o decimal(TrojanPort) \o query \o remarks :
     query \in SegmentQueries, remarks \in SegmentRemarks}
    \cup { TrojanHost, TrojanHost \o <<35,114>> }

\* lines given as they are
DecodeLines ==
  {
  \* "ss://" (the bare scheme)
    <<115,115,58,47,47>>,
  \* "ss:/" (the scheme cut short)
    <<115,115,58,47>>,
  \* "ss://\u65e5\u672c" (multi-byte text after the scheme)
    <<115,115,58,47,47,230,151,165,230,156,172>>,
  \* "s\u65e5" (a multi-byte character across offset 5)
    <<115,230,151,165>>,
  \* "ss://YWVzLTEyOC1nY206OTQzYjI4MDEtYWE2YS00YTIwLWI2OTAtNGUzNzdkY2ZjOTJl@hk11.cxk.lol:25451" (test_parse_sip002_format)
    <<115,115,58,47,47,89,87,86,122,76,84,69,121,79,67,49,110,89,50,48,54,79,84,81,122,89,106,73,52,77,68,69,116,89,87,69,50,89,83,48,48,89,84,73,119,76,87,73,50,79,84,65,116,78,71,85,122,78,122,100,107,89,50,90,106,79,84,74,108,64,104,107,49,49,46,99,120,107,46,108,111,108,58,50,53,52,53,49>>,
  \* "ss://aes-256-gcm:password@example.com:8388#MyServer" (test_parse_legacy_format)
    <<115,115,58,47,47,97,101,115,45,50,53,54,45,103,99,109,58,112,97,115,115,119,111,114,100,64,101,120,97,109,112,108,101,46,99,111,109,58,56,51,56,56,35,77,121,83,101,114,118,101,114>>,
  \* "ss://YWVzLTEyOC1nY206cHc=" (a userinfo segment and nothing else)
    <<115,115,58,47,47,89,87,86,122,76,84,69,121,79,67,49,110,89,50,48,54,99,72,99,61>>,
  \* "ss://bTo-Pj4=@h:443" (the userinfo m:>>> in the URL-safe alphabet)
    <<115,115,58,47,47,98,84,111,45,80,106,52,61,64,104,58,52,52,51>>,
  \* "ss://bTo+Pj4=@h:443" (the userinfo m:>>> in the standard alphabet)
    <<115,115,58,47,47,98,84,111,43,80,106,52,61,64,104,58,52,52,51>>,
  \* "ss://bTo_Pz8=@h:443" (the userinfo m:??? in the URL-safe alphabet)
    <<115,115,58,47,47,98,84,111,95,80,122,56,61,64,104,58,52,52,51>>,
  \* "ss://bTo/Pz8=@h:443" (the userinfo m:??? in the standard alphabet)
    <<115,115,58,47,47,98,84,111,47,80,122,56,61,64,104,58,52,52,51>>,
  \* "ss://bTpw@::1:8388" (an IPv6 literal as the host)
    <<115,115,58,47,47,98,84,112,119,64,58,58,49,58,56,51,56,56>>,
  \* "ss://bTpw@h:1#a#b" (two # in the line)
    <<115,115,58,47,47,98,84,112,119,64,104,58,49,35,97,35,98>>,
  \* "ss://bTpw@h:1#a%20b" (a percent escape in the remarks)
    <<115,115,58,47,47,98,84,112,119,64,104,58,49,35,97,37,50,48,98>>,
  \* "ss://bTpw@h" (no port)
    <<115,115,58,47,47,98,84,112,119,64,104>>,
  \* "ss://bTpw@h:0" (port 0)
    <<115,115,58,47,47,98,84,112,119,64,104,58,48>>,
  \* "ss://bTpw@:443" (no host)
    <<115,115,58,47,47,98,84,112,119,64,58,52,52,51>>,
  \* "ss://Om0=@h:443" (the userinfo :m, an empty method)
    <<115,115,58,47,47,79,109,48,61,64,104,58,52,52,51>>,
  \* "ss://bTo=@h:443" (the userinfo m:, an empty password)
    <<115,115,58,47,47,98,84,111,61,64,104,58,52,52,51>>,
  \* "trojan://" (the bare scheme)
    <<116,114,111,106,97,110,58,47,47>>,
  \* "trojan:/" (the scheme cut short)
    <<116,114,111,106,97,110,58,47>>,
  \* "trojan://\u65e5" (multi-byte text after the scheme)
    <<116,114,111,106,97,110,58,47,47,230,151,165>>,
  \* "trojan://f9ad69aa-bb58-48bb-93d7-47a8e93651d4@host:12068" (a link without a query)
    <<116,114,111,106,97,110,58,47,47,102,57,97,100,54,57,97,97,45,98,98,53,56,45,52,56,98,98,45,57,51,100,55,45,52,55,97,56,101,57,51,54,53,49,100,52,64,104,111,115,116,58,49,50,48,54,56>>,
  \* "trojan:/f9ad69aa-bb58-48bb-93d7-47a8e93651d4@host:12068" (a link with one slash)
    <<116,114,111,106,97,110,58,47,102,57,97,100,54,57,97,97,45,98,98,53,56,45,52,56,98,98,45,57,51,100,55,45,52,55,97,56,101,57,51,54,53,49,100,52,64,104,111,115,116,58,49,50,48,54,56>>,
  \* "vless://" (the bare scheme)
    <<118,108,101,115,115,58,47,47>>,
  \* "vless:/" (the scheme cut short)
    <<118,108,101,115,115,58,47>>,
  \* "vless://\u65e5" (multi-byte text after the scheme)
    <<118,108,101,115,115,58,47,47,230,151,165>>,
  \* "vless://f9ad69aa-bb58-48bb-93d7-47a8e93651d4@host:443?security=tls&sni=a.b#n" (a link)
    <<118,108,101,115,115,58,47,47,102,57,97,100,54,57,97,97,45,98,98,53,56,45,52,56,98,98,45,57,51,100,55,45,52,55,97,56,101,57,51,54,53,49,100,52,64,104,111,115,116,58,52,52,51,63,115,101,99,117,114,105,116,121,61,116,108,115,38,115,110,105,61,97,46,98,35,110>>,
  \* "vless:/f9ad69aa-bb58-48bb-93d7-47a8e93651d4@host:443" (a link with one slash)
    <<118,108,101,115,115,58,47,102,57,97,100,54,57,97,97,45,98,98,53,56,45,52,56,98,98,45,57,51,100,55,45,52,55,97,56,101,57,51,54,53,49,100,52,64,104,111,115,116,58,52,52,51>> }

\* every line the decoders are run on
AllLines ==
  RawLines \cup DecodeLines
    \cup {trojan_link(TrojanUuid, TrojanHost, TrojanPort, query) : query \in TrojanQueries}
    \cup {ss_scheme \o encode(STANDARD, userinfo) \o <<64,104,58,52,52,51>> :
            userinfo \in UserinfoTexts}
    \cup {credential_link(scheme, credential) :
            scheme \in {trojan_scheme, vless_scheme}, credential \in Credentials}
    \cup {scheme \o TrojanUuid \o <<64>> \o segment :
            scheme \in {trojan_scheme, vless_scheme}, segment \in QuerySegments}
    \cup {credential_link(vless_scheme, TrojanUuid) \o <<63>> \o query : query \in VlessQueries}

InitDecode ==
  /\ \/ /\ pc = "ss_config"
        /\ ss_src \in {Some(config) : config \in SsConfigs}
        /\ line = <<>>
     \/ /\ pc = "url"
        /\ ss_src = None
        /\ line \in AllLines
     \/ /\ pc = "userinfo"
        /\ ss_src = None
        /\ line \in UserinfoTexts
     \/ /\ pc = "segment"
        /\ ss_src = None
        /\ line \in Segments
     \/ /\ pc = "port"
        /\ ss_src = None
        /\ line \in SegmentPorts
     \/ /\ pc = "trojan_config"
        /\ ss_src \in {Some(config) : config \in TrojanConfigs}
        /\ line = <<>>
     \/ /\ pc = "vless_config"
        /\ ss_src \in {Some(config) : config \in VlessConfigs}
        /\ line = <<>>
     \/ /\ pc = "credential"
        /\ ss_src = None
        /\ line \in Credentials
     \/ /\ pc = "query_segment"
        /\ ss_src = None
        /\ line \in QuerySegments
     \/ /\ pc = "query"
        /\ ss_src = None
        /\ line \in VlessQueries
  /\ callee = ""
  /\ ret = None
  /\ vmess_src = None
  /\ node = None
  /\ attempted = <<>>
  /\ decoded = None
  /\ cache_dir = <<>>
  /\ contents = <<>>
  /\ configs = <<>>
  /\ proxies = <<>>
  /\ proxy_groups = <<>>
  /\ io_idle

\* the descriptor written out as a SIP002 link
write_sip002_link ==
  /\ pc = "ss_config"
  /\ line' = sip002_link(ss_src[1])
  /\ pc' = "url"
  /\ UNCHANGED <<callee, ret, ss_src, vmess_src, node, attempted, decoded>>
  /\ UNCHANGED merge_vars
  /\ UNCHANGED io_vars

\* the descriptor written out as a legacy link
write_legacy_link ==
  /\ pc = "ss_config"
  /\ line' = legacy_link(ss_src[1])
  /\ pc' = "url"
  /\ UNCHANGED <<callee, ret, ss_src, vmess_src, node, attempted, decoded>>
  /\ UNCHANGED merge_vars
  /\ UNCHANGED io_vars

\* one call: the function's name and its outcome are kept, the input stays
returns(name, outcome) ==
  /\ callee' = name
  /\ ret' = Some(outcome)
  /\ pc' = "returned"
  /\ UNCHANGED <<line, ss_src, vmess_src, node, attempted, decoded>>
  /\ UNCHANGED merge_vars
  /\ UNCHANGED io_vars

\* parse_vmess_config with its slice: &vmess_url[8..] after the prefix test
vmess_outcome(vmess_url) ==
  IF starts_with(vmess_url, vmess_scheme) /\ ~is_char_boundary(vmess_url, 8) THEN Panicked
  ELSE Returned(parse_vmess_config(vmess_url).config)

\* parse_line_to_node with the outcome of the decoder it runs
line_outcome(l) ==
  IF detect_protocol(l) = "Vmess" /\ vmess_outcome(l).panic THEN Panicked
  ELSE Returned(Some(parse_line_to_node(l).node))

call_validate_ss_config ==
  /\ pc = "ss_config"
  /\ returns("validate_ss_config", Returned(validate_ss_config(ss_src[1])))

call_parse_line_to_node ==
  /\ pc = "url"
  /\ \E outcome \in {line_outcome(line)} : returns("parse_line_to_node", outcome)

call_parse_vmess_config ==
  /\ pc = "url"
  /\ \E outcome \in {vmess_outcome(line)} : returns("parse_vmess_config", outcome)

call_parse_ss_config ==
  /\ pc = "url"
  /\ \E outcome \in {parse_ss_config(line)} : returns("parse_ss_config", outcome)

\* parse_sip002_ss_format on what follows the scheme, whatever it holds
call_parse_sip002_ss_format ==
  /\ pc = "url"
  /\ starts_with(line, ss_scheme)
  /\ \E outcome \in {parse_sip002_ss_format(slice_from(line, 5))} :
       returns("parse_sip002_ss_format", outcome)

\* parse_legacy_ss_format on what follows the scheme, whatever it holds
call_parse_legacy_ss_format ==
  /\ pc = "url"
  /\ starts_with(line, ss_scheme)
  /\ \E outcome \in {parse_legacy_ss_format(slice_from(line, 5))} :
       returns("parse_legacy_ss_format", outcome)

call_parse_trojan_config ==
  /\ pc = "url"
  /\ \E outcome \in {parse_trojan_config(line)} : returns("parse_trojan_config", outcome)

call_parse_vless_config ==
  /\ pc = "url"
  /\ \E outcome \in {parse_vless_config(line)} : returns("parse_vless_config", outcome)

call_parse_userinfo ==
  /\ pc = "userinfo"
  /\ \E outcome \in {parse_userinfo(line)} : returns("parse_userinfo", outcome)

call_parse_server_port_remarks ==
  /\ pc = "segment"
  /\ \E outcome \in {Returned(parse_server_port_remarks(line))} :
       returns("parse_server_port_remarks", outcome)

\* parse_encoded_port on a port token, as test_parse_encoded_port calls it
call_parse_encoded_port ==
  /\ pc = "port"
  /\ \E outcome \in {Returned(parse_encoded_port(line))} :
       returns("parse_encoded_port", outcome)

call_validate_trojan_config ==
  /\ pc = "trojan_config"
  /\ returns("validate_trojan_config", Returned(validate_trojan_config(ss_src[1])))

call_validate_vless_config ==
  /\ pc = "vless_config"
  /\ returns("validate_vless_config", Returned(validate_vless_config(ss_src[1])))

call_extract_uuid ==
  /\ pc = "credential"
  /\ returns("extract_uuid", Returned(extract_uuid(line)))

call_parse_server_query_remarks ==
  /\ pc = "query_segment"
  /\ \E outcome \in {Returned(parse_server_query_remarks(line))} :
       returns("parse_server_query_remarks", outcome)

\* parse_query_params of vless.rs on a query, and the VlessConfig that the
\* struct literal of parse_vless_config builds from its result
call_vless_parse_query_params ==
  /\ pc = "query"
  /\ \E params \in {vless_parse_query_params(line)} :
       returns("parse_query_params",
               Returned(Some(VlessConfig(TrojanHost, TrojanPort, TrojanUuid, None, params))))

NextDecode ==
  \/ write_sip002_link
  \/ write_legacy_link
  \/ call_validate_ss_config
  \/ call_parse_line_to_node
  \/ call_parse_vmess_config
  \/ call_parse_ss_config
  \/ call_parse_sip002_ss_format
  \/ call_parse_legacy_ss_format
  \/ call_parse_trojan_config
  \/ call_parse_vless_config
  \/ call_parse_userinfo
  \/ call_parse_server_port_remarks
  \/ call_parse_encoded_port
  \/ call_validate_trojan_config
  \/ call_validate_vless_config
  \/ call_extract_uuid
  \/ call_parse_server_query_remarks
  \/ call_vless_parse_query_params

SpecDecode == InitDecode /\ [][NextDecode]_vars

----------------------------------------------------------------------------
(* Claims about the merge stage (specification Spec) *)

\* the renamed batches, concatenated in the order the loop processed them
Concat(cs) == [k \in 1..Len(merge_proxies(cs)) |-> merge_proxies(cs)[k]]

\* the index in list l of the first element with the given name
FirstIndex(l, name) == SetMin({k \in 1..Len(l) : l[k].name = name})

\* the indices (batch, position) of the tagged proxies
TaggedAt == UNION {{<<b, k>> : k \in 1..Len(configs[b].proxies)} : b \in 1..Len(configs)}

\* C1: after merge and deduplication the proxy list has pairwise distinct
\* display names, every display name of a batch survives exactly once, each
\* survivor is the first proxy of that name in the concatenation of the batches
\* (so the one of the earlier batch when two batches share a name), and the
\* survivors keep the order of their first occurrences.
C1_DedupFirstWins ==
  pc \in {"merged", "rules", "grouped"} =>
    LET cat == Concat(configs) IN
      /\ \A i, j \in 1..Len(proxies) : proxies[i].name = proxies[j].name => i = j
      /\ {proxies[i].name : i \in 1..Len(proxies)} = {cat[k].name : k \in 1..Len(cat)}
      /\ \A i \in 1..Len(proxies) : proxies[i] = cat[FirstIndex(cat, proxies[i].name)]
      /\ \A i, j \in 1..Len(proxies) :
           i < j => FirstIndex(cat, proxies[i].name) < FirstIndex(cat, proxies[j].name)
      /\ \A x, y \in TaggedAt :
           (x[1] < y[1] /\ configs[x[1]].proxies[x[2]].name = configs[y[1]].proxies[y[2]].name)
             => \A i \in 1..Len(proxies) : proxies[i] # configs[y[1]].proxies[y[2]]

\* two batches hold a proxy of the same display name, and the aggregate holds
\* the one of the earlier batch
C1_Witness ==
  /\ pc = "merged"
  /\ \E x, y \in TaggedAt :
       /\ x[1] < y[1]
       /\ configs[x[1]].proxies[x[2]].name = configs[y[1]].proxies[y[2]].name
       /\ configs[x[1]].proxies[x[2]] # configs[y[1]].proxies[y[2]]
       /\ \E i \in 1..Len(proxies) : proxies[i] = configs[x[1]].proxies[x[2]]

----------------------------------------------------------------------------
(* Claims about create_groups_by_country (specification SpecGroups) *)

\* the region rules as a table: the label and the keywords of each, in order
Rules ==
  << <<Germany, {kw_de_zh, kw_de}>>, <<Taiwan, {kw_tw_zh, kw_tw}>>,
     <<HongKong, {kw_hk_zh, kw_hk}>>, <<Japan, {kw_jp_zh, kw_jp}>>,
     <<Singapore, {kw_sg_zh, kw_sg}>>, <<US, {kw_us_zh, kw_us}>>,
     <<UK, {kw_uk_zh, kw_uk}>> >>

Matching(name) == {r \in 1..Len(Rules) : \E kw \in Rules[r][2] : contains(name, kw)}

Excluded(name) == contains(name, kw_remaining) \/ contains(name, kw_expiry)

Regions == {region_names[i] : i \in 1..Len(region_names)}

\* the region a name belongs to by the rule table; None when it belongs to none
Assigned(name) ==
  IF Matching(name) # {} THEN Some(Rules[SetMin(Matching(name))][1])
  ELSE IF Excluded(name) THEN None
  ELSE Some(Other)

Members(g) == {g.proxies[i] : i \in 1..Len(g.proxies)}

GroupsOf(type) == {i \in 1..Len(proxy_groups) : proxy_groups[i].type = type}

\* the url-test groups of the output that list the name as a member
UrlTestGroupsWith(name) ==
  {proxy_groups[i].name : i \in {j \in GroupsOf(url_test) : name \in Members(proxy_groups[j])}}

InputNames == {proxies[i].name : i \in 1..Len(proxies)}

\* C2: a proxy whose name matches a region rule is a member of the group of the
\* first matching rule, in the order Germany, Taiwan, Hong Kong, Japan,
\* Singapore, US, UK, and of no other url-test group.
C2_FirstRuleWins ==
  pc = "grouped" =>
    \A name \in InputNames :
      Matching(name) # {} => UrlTestGroupsWith(name) = {Rules[SetMin(Matching(name))][1]}

\* a name with the keywords of two regions is in the earlier region's group
C2_Witness ==
  /\ pc = "grouped"
  /\ \E name \in InputNames :
       /\ Cardinality(Matching(name)) = 2
       /\ contains(name, kw_hk_zh) /\ contains(name, kw_jp)
       /\ UrlTestGroupsWith(name) = {HongKong}

\* C3: a proxy whose name matches no region rule and holds neither exclusion
\* keyword is a member of the group Other and of no other url-test group.
C3_OtherBucket ==
  pc = "grouped" =>
    \A name \in InputNames :
      (Matching(name) = {} /\ ~Excluded(name)) => UrlTestGroupsWith(name) = {Other}

C3_Witness ==
  /\ pc = "grouped"
  /\ \E name \in InputNames :
       Matching(name) = {} /\ ~Excluded(name) /\ UrlTestGroupsWith(name) = {Other}

\* C4 as claimed: a proxy whose name holds an exclusion keyword is a member of
\* no group of the output.
C4_Original ==
  pc = "grouped" =>
    \A name \in InputNames :
      Excluded(name) => \A i \in 1..Len(proxy_groups) : name \notin Members(proxy_groups[i])

\* C4 as amended: a proxy whose name matches no region rule and holds an
\* exclusion keyword is a member of no group of the output; a name that also
\* matches a region rule is in that region's group.
C4_ExcludedUnlessRegion ==
  pc = "grouped" =>
    \A name \in InputNames :
      Excluded(name) =>
        IF Matching(name) = {}
        THEN \A i \in 1..Len(proxy_groups) : name \notin Members(proxy_groups[i])
        ELSE UrlTestGroupsWith(name) = {Rules[SetMin(Matching(name))][1]}

\* the list holds a notice name that is in no group, and a name with an
\* exclusion keyword and a region keyword that is in the region's group
C4_Witness ==
  /\ pc = "grouped"
  /\ \E name \in InputNames :
       Excluded(name) /\ Matching(name) = {}
         /\ \A i \in 1..Len(proxy_groups) : name \notin Members(proxy_groups[i])
  /\ \E name \in InputNames :
       Excluded(name) /\ Matching(name) # {} /\ UrlTestGroupsWith(name) # {}

\* C5 as claimed: the output holds a url-test group for a region if and only if
\* at least one proxy was assigned to that region.
C5_Original ==
  pc = "grouped" =>
    \A r \in Regions :
      (\E i \in GroupsOf(url_test) : proxy_groups[i].name = r)
        <=> (\E name \in InputNames : Assigned(name) = Some(r))

\* C5 as amended: the output holds exactly one url-test group per region, Other
\* included, whether or not a proxy was assigned to it; the members of the
\* group are the names assigned to the region, so the group of a region without
\* proxies is in the output with an empty member list.
C5_OneGroupPerRegion ==
  pc = "grouped" =>
    /\ Cardinality(GroupsOf(url_test)) = Cardinality(Regions)
    /\ \A r \in Regions :
         /\ Cardinality({i \in GroupsOf(url_test) : proxy_groups[i].name = r}) = 1
         /\ \A i \in GroupsOf(url_test) :
              proxy_groups[i].name = r =>
                Members(proxy_groups[i]) = {name \in InputNames : Assigned(name) = Some(r)}

\* a region with proxies and a region without: both groups are in the output
C5_Witness ==
  /\ pc = "grouped"
  /\ \E i, j \in GroupsOf(url_test) :
       proxy_groups[i].proxies = <<>> /\ proxy_groups[j].proxies # <<>>

GroupNamed(name) == proxy_groups[CHOOSE i \in 1..Len(proxy_groups) : proxy_groups[i].name = name]

\* the names of the url-test groups of the output, in output order
RegionGroupNames ==
  [k \in 1..Cardinality(GroupsOf(url_test)) |->
     proxy_groups[CHOOSE i \in GroupsOf(url_test) :
                    Cardinality({j \in GroupsOf(url_test) : j < i}) = k - 1].name]

SeqRange(q) == {q[i] : i \in 1..Len(q)}

\* C6 as claimed: the umbrella select group lists exactly the region-group
\* names, each of Google, Microsoft and Apple lists the region-group names plus
\* DIRECT, and DIRECT is a member of no region group.
C6_Original ==
  pc = "grouped" =>
    /\ GroupNamed(ManualSelect).proxies = RegionGroupNames
    /\ \A v \in {Google, Microsoft, Apple} :
         /\ Members(GroupNamed(v)) = SeqRange(RegionGroupNames) \cup {DIRECT}
         /\ Len(GroupNamed(v).proxies) = Len(RegionGroupNames) + 1
    /\ \A i \in GroupsOf(url_test) : DIRECT \notin Members(proxy_groups[i])

\* C6 as amended: the umbrella select group and Google list exactly the
\* region-group names; Microsoft and Apple list DIRECT and then the region-group
\* names; DIRECT is the name of no group, and it is a member of a region group
\* only when a proxy of the input list is itself named DIRECT.
C6_SelectGroups ==
  pc = "grouped" =>
    /\ GroupNamed(ManualSelect).proxies = RegionGroupNames
    /\ GroupNamed(Google).proxies = RegionGroupNames
    /\ \A v \in {Microsoft, Apple} : GroupNamed(v).proxies = <<DIRECT>> \o RegionGroupNames
    /\ GroupsOf(select_type) = {i \in 1..Len(proxy_groups) :
                                  proxy_groups[i].name \in {ManualSelect, Google, Microsoft, Apple}}
    /\ Cardinality(GroupsOf(select_type)) = 4
    /\ \A i \in 1..Len(proxy_groups) : proxy_groups[i].name # DIRECT
    /\ \A i \in GroupsOf(url_test) :
         DIRECT \in Members(proxy_groups[i]) => DIRECT \in InputNames

\* groups built from a list with a proxy in a region group: Microsoft and Apple
\* carry DIRECT, Google and the umbrella group do not
C6_Witness ==
  /\ pc = "grouped"
  /\ proxies # <<>>
  /\ DIRECT \in Members(GroupNamed(Microsoft)) /\ DIRECT \in Members(GroupNamed(Apple))
  /\ DIRECT \notin Members(GroupNamed(Google)) /\ DIRECT \notin Members(GroupNamed(ManualSelect))
  /\ \E i \in GroupsOf(url_test) : proxy_groups[i].proxies # <<>>

----------------------------------------------------------------------------
(* Claims about the line parser (specification SpecParse) *)

\* the line starts with "vmess://" once its leading white space is dropped
StartsScheme ==
  \E i \in 0..Len(line) :
    /\ trim(SubSeq(line, 1, i)) = <<>>
    /\ starts_with(SubSeq(line, i + 1, Len(line)), vmess_scheme)

\* some five bytes of the line spell "vmess", each letter in either case
SpellsVmess ==
  \E i \in 1..(Len(line) - 4) :
    \A k \in 1..5 : line[i + k - 1] \in {vmess_word[k], vmess_word[k] - 32}

\* C7: detect_protocol gives every line a tag, Vmess or Unidentified, and the
\* tag is Vmess exactly when the trimmed line starts with "vmess://" or the line
\* contains "vmess" in any mix of cases; every other line, the empty one
\* included, is Unidentified.
C7_Classifier ==
  pc \in {"parsed", "decoded"} =>
    /\ node[1].protocol \in {"Vmess", "Unidentified"}
    /\ node[1].protocol = "Vmess" <=> (StartsScheme \/ SpellsVmess)
    /\ line = <<>> => node[1].protocol = "Unidentified"

\* a line tagged Vmess only because it spells the word in mixed case
C7_Witness ==
  /\ pc = "parsed"
  /\ ~StartsScheme
  /\ ~contains(line, vmess_word)
  /\ SpellsVmess
  /\ node[1].protocol = "Vmess"

DecoderOrder == <<"Vmess", "Shadowsocks", "Trojan", "Vless">>

\* C8 as stated: the decoders are attempted in the order Vmess, Shadowsocks,
\* Trojan, Vless up to the first that does not fail, so a line whose Vmess
\* decoding fails goes on to the next decoder and a line is left without a
\* protocol only after all four were attempted.
C8_Original ==
  pc = "parsed" =>
    /\ \E n \in 1..Len(DecoderOrder) : attempted = SubSeq(DecoderOrder, 1, n)
    /\ node[1].vmess_config = None => Len(attempted) > 1
    /\ node[1].protocol = "Unidentified" => attempted = DecoderOrder

\* the text is a JSON object that names each of the eleven keys
IsObjectOfFields(bytes) ==
  /\ byte_at(bytes, skip_ws(bytes, 1)) = 123
  /\ \A f \in FieldSet : contains(bytes, <<34>> \o json_key(f) \o <<34>>)

\* C9 as stated: parse_vmess_config decodes the text after "vmess://" with the
\* standard alphabet first and with the URL-safe alphabet only when that fails;
\* it returns a descriptor only when the attempt that decoded gave valid UTF-8
\* that is a JSON object holding the eleven fields, and None in every other
\* case, the missing prefix included.
C9_Original ==
  pc = "decoded" =>
    LET r    == decoded[1]
        data == SubSeq(line, 9, Len(line))
        std  == decode(STANDARD, data)
        url  == decode(URL_SAFE, data)
        Accepts(d) == d.ok /\ from_utf8_ok(d.bytes) /\ IsObjectOfFields(d.bytes)
    IN  IF ~starts_with(line, vmess_scheme)
        THEN r.config = None /\ r.tried = <<>>
        ELSE /\ r.tried = (IF std.ok THEN <<"STANDARD">> ELSE <<"STANDARD", "URL_SAFE">>)
             /\ is_some(r.config) => (IF std.ok THEN Accepts(std) ELSE Accepts(url))

\* C10: for every VmessConfig D, the link made of "vmess://" and the standard
\* base64 of D's JSON text is parsed by parse_vmess_config into Some(D), every
\* field equal to D's, the port the same text.
C10_RoundTrip ==
  (pc = "decoded" /\ is_some(vmess_src)) =>
    /\ is_some(decoded[1].config)
    /\ \A f \in FieldSet : decoded[1].config[1][f] = vmess_src[1][f]

\* a config whose remarks hold a quote and a backslash came back from its link
C10_Witness ==
  /\ pc = "decoded"
  /\ is_some(vmess_src)
  /\ vmess_src[1].remarks = <<34, 92>>
  /\ decoded[1].config = vmess_src

----------------------------------------------------------------------------
(* Claims about the decoders applied one at a time (specification SpecDecode) *)

\* the functions that take a whole line
LineDecoders ==
  {"parse_line_to_node", "parse_vmess_config", "parse_ss_config",
   "parse_trojan_config", "parse_vless_config"}

\* C11: parse_line_to_node, parse_vmess_config, parse_ss_config,
\* parse_trojan_config and parse_vless_config return a value, a descriptor or
\* None, on every line and never panic: no index or slice is out of range, the
\* empty line, a bare scheme and multi-byte text included.
C11_Total ==
  (pc = "returned" /\ callee \in LineDecoders) =>
    /\ ~ret[1].panic
    /\ callee = "parse_line_to_node" => is_some(ret[1].value)

\* parse_ss_config came back with None from "ss://" followed by multi-byte text
C11_Witness ==
  /\ pc = "returned"
  /\ callee = "parse_ss_config"
  /\ line = ss_scheme \o <<230,151,165,230,156,172>>
  /\ ret = Some(Returned(None))

\* the descriptor is one a link stands for: host, method and password not
\* empty, the port in 1..65535
Linkable(config) ==
  /\ config.server # <<>>
  /\ config.method # <<>>
  /\ config.password # <<>>
  /\ config.server_port \in 1..65535

\* C12 as stated: for a line "ss://" B "@" H ":" P, with B the standard base64
\* of "method:password", H a host and P a decimal port in 1..65535,
\* parse_ss_config returns a descriptor with server H, server_port P and that
\* method.
C12_Original ==
  (/\ pc = "returned"
   /\ callee = "parse_ss_config"
   /\ is_some(ss_src)
   /\ Linkable(ss_src[1])
   /\ ss_src[1].remarks = None
   /\ line = sip002_link(ss_src[1])) =>
    /\ is_some(ret[1].value)
    /\ ret[1].value[1].server = ss_src[1].server
    /\ ret[1].value[1].server_port = ss_src[1].server_port
    /\ ret[1].value[1].method = ss_src[1].method

\* C13 as stated: for a line "ss://" M ":" PW "@" H ":" P "#" R, with M, PW and
\* H free of ':' '@' '#' and P a decimal port in 1..65535, parse_ss_config
\* returns a descriptor with method M, password PW, server H, server_port P
\* and remarks R.
C13_Original ==
  (/\ pc = "returned"
   /\ callee = "parse_ss_config"
   /\ is_some(ss_src)
   /\ Linkable(ss_src[1])
   /\ is_some(ss_src[1].remarks)
   /\ line = legacy_link(ss_src[1])) =>
    /\ is_some(ret[1].value)
    /\ ret[1].value[1].method = ss_src[1].method
    /\ ret[1].value[1].password = ss_src[1].password
    /\ ret[1].value[1].server = ss_src[1].server
    /\ ret[1].value[1].server_port = ss_src[1].server_port
    /\ ret[1].value[1].remarks = ss_src[1].remarks

\* the token allowInsecure=1 is in the query
AllowsInsecure(query) ==
  \E i \in 1..Len(split(query, 38)) :
    split(query, 38)[i] = <<97,108,108,111,119,73,110,115,101,99,117,114,101,61,49>>

\* the value of the query's token of that key, when there is one
TokenValue(query, key) ==
  LET tokens == split(query, 38)
      at     == {i \in 1..Len(tokens) : starts_with(tokens[i], key \o <<61>>)}
  IN  IF at = {} THEN None
      ELSE Some(SubSeq(tokens[SetMin(at)], Len(key) + 2, Len(tokens[SetMin(at)])))

\* C14 as stated: for a line "trojan://" U "@" H ":" P "?" Q, with U a UUID, H
\* a host and P a decimal port in 1..65535, parse_trojan_config returns a
\* descriptor with password U, server H, server_port P, allow_insecure true
\* exactly when Q has the token allowInsecure=1, and peer and sni the values of
\* the tokens peer and sni.
C14_Original ==
  \A query \in TrojanQueries :
    (/\ pc = "returned"
     /\ callee = "parse_trojan_config"
     /\ line = trojan_link(TrojanUuid, TrojanHost, TrojanPort, query)) =>
      /\ is_some(ret[1].value)
      /\ ret[1].value[1].password = TrojanUuid
      /\ ret[1].value[1].server = TrojanHost
      /\ ret[1].value[1].server_port = TrojanPort
      /\ ret[1].value[1].allow_insecure = AllowsInsecure(query)
      /\ ret[1].value[1].peer = TokenValue(query, <<112,101,101,114>>)
      /\ ret[1].value[1].sni = TokenValue(query, <<115,110,105>>)

\* the proxy list main builds when load_cache yields the cached files in that order
MergedIn(order) ==
  unique_by_name(
    merge_proxies([i \in 1..Len(order) |->
                     [proxies |-> tag_proxies(cache_dir[order[i]].proxies, order[i])]]),
    {})

\* C15 as stated (specification Spec): the merge stage takes the batches in a
\* fixed order, so the proxy list (the survivors of deduplication and their
\* order) and the groups are the same whatever the order in which the cached
\* files are enumerated.
C15_Original ==
  pc \in {"merged", "rules", "grouped"} =>
    \A order \in Perms({v \in Vendors : cache_dir[v].kind # "none"}) :
      /\ proxies = MergedIn(order)
      /\ pc = "grouped" => proxy_groups = create_groups_by_country(MergedIn(order))

UserinfoSegment(l) == slice(slice_from(l, 5), 0, find(slice_from(l, 5), 64)[1])

\* the text decodes in the URL-safe alphabet and not in the standard one
UrlSafeOnly(text) == decode(URL_SAFE, text).ok /\ ~decode(STANDARD, text).ok

\* C17: the SIP002 path decodes the userinfo segment with the standard
\* alphabet only: a line whose userinfo segment is base64 in the URL-safe
\* alphabet and not in the standard one gives no descriptor from
\* parse_ss_config (nor from parse_sip002_ss_format on its own, which does
\* decode the same userinfo written in the standard alphabet), whereas
\* parse_vmess_config gives a descriptor for a payload that is base64 only in
\* the URL-safe alphabet.
C17_StandardOnly ==
  /\ (/\ pc = "returned"
      /\ callee \in {"parse_ss_config", "parse_sip002_ss_format"}
      /\ starts_with(line, ss_scheme)
      /\ is_some(find(slice_from(line, 5), 64))
      /\ UrlSafeOnly(UserinfoSegment(line))) =>
       ret[1].value = None
  /\ (/\ pc = "returned"
      /\ callee = "parse_sip002_ss_format"
      /\ line = ss_scheme \o <<98,84,111,43,80,106,52,61>> \o <<64,104,58,52,52,51>>) =>
       /\ is_some(ret[1].value)
       /\ ret[1].value[1].password = <<62,62,62>>
  /\ \A p \in UrlPayloads :
       (/\ pc = "returned"
        /\ callee = "parse_vmess_config"
        /\ line = vmess_scheme \o encode(URL_SAFE, p)
        /\ UrlSafeOnly(encode(URL_SAFE, p))) =>
         /\ is_some(ret[1].value)
         /\ ret[1].value = decoded_config(p)

\* parse_ss_config gave None for "ss://bTo-Pj4=@h:443", whose userinfo is
\* "m:>>>" in the URL-safe alphabet
C17_Witness ==
  /\ pc = "returned"
  /\ callee = "parse_ss_config"
  /\ line = ss_scheme \o <<98,84,111,45,80,106,52,61>> \o <<64,104,58,52,52,51>>
  /\ UrlSafeOnly(UserinfoSegment(line))
  /\ ret = Some(Returned(None))

\* the text is one or more decimal digits of a value up to 65535
IsPort(text) ==
  /\ text # <<>>
  /\ \A k \in 1..Len(text) : text[k] \in 48..57
  /\ digits_value(text) <= 65535

\* C18 as stated: parse_userinfo splits the text on ':' and goes by the number
\* of fields, returning without a panic for every number: fewer than 2 fail; 2
\* give method and password; 4 give method, password, server, port; 5 give
\* method, password, protocol, obfs; 6 or more give method, password, protocol,
\* obfs, obfs_param and the last two fields as server and port; a port field
\* that is not a number fails.
C18_Original ==
  (pc = "returned" /\ callee = "parse_userinfo") =>
    LET parts == split(line, 58)
        n     == Len(parts)
        info  == ret[1].value
    IN  /\ ~ret[1].panic
        /\ n < 2 => info = None
        /\ (n >= 2 /\ is_some(info)) =>
             info[1].method = parts[1] /\ info[1].password = parts[2]
        /\ n = 2 => is_some(info)
        /\ n = 4 =>
             IF IsPort(parts[4])
             THEN /\ is_some(info)
                  /\ info[1].server = parts[3]
                  /\ info[1].port = digits_value(parts[4])
             ELSE info = None
        /\ (n = 5 /\ is_some(info)) =>
             info[1].protocol = Some(parts[3]) /\ info[1].obfs = Some(parts[4])
        /\ n >= 6 =>
             IF IsPort(parts[n])
             THEN /\ is_some(info)
                  /\ info[1].protocol = Some(parts[3])
                  /\ info[1].obfs = Some(parts[4])
                  /\ info[1].obfs_param = Some(parts[5])
                  /\ info[1].server = parts[n - 1]
                  /\ info[1].port = digits_value(parts[n])
             ELSE info = None

\* the segment in front of the first '#'
BeforeHash(text) == IF find(text, 35) = None THEN text ELSE slice(text, 0, find(text, 35)[1])

\* C19: the host:port segment is split at its LAST colon: for a segment X ":" P
\* in front of any '#', with P a decimal port, the server is all of X, earlier
\* colons included, and the port is P; a segment without a colon fails. So the
\* descriptor parse_sip002_ss_format builds for "bTpw@::1:8388" has server
\* "::1" and port 8388.
C19_LastColon ==
  /\ (pc = "returned" /\ callee = "parse_server_port_remarks") =>
       LET segment == BeforeHash(line) IN
         /\ (\A k \in 1..Len(segment) : segment[k] # 58) => ret[1].value = None
         /\ \A k \in 1..Len(segment) :
              (/\ segment[k] = 58
               /\ \A j \in (k + 1)..Len(segment) : segment[j] # 58
               /\ IsPort(SubSeq(segment, k + 1, Len(segment)))) =>
                /\ is_some(ret[1].value)
                /\ ret[1].value[1].server = SubSeq(segment, 1, k - 1)
                /\ ret[1].value[1].port = digits_value(SubSeq(segment, k + 1, Len(segment)))
  /\ (/\ pc = "returned"
      /\ callee = "parse_sip002_ss_format"
      /\ line = ss_scheme \o <<98,84,112,119,64>> \o <<58,58,49,58,56,51,56,56>>) =>
       /\ is_some(ret[1].value)
       /\ ret[1].value[1].server = <<58,58,49>>
       /\ ret[1].value[1].server_port = 8388

\* the segment "::1:8388#r" was split into the server "::1" and the port 8388
C19_Witness ==
  /\ pc = "returned"
  /\ callee = "parse_server_port_remarks"
  /\ line = <<58,58,49,58,56,51,56,56,35,114>>
  /\ is_some(ret[1].value)
  /\ ret[1].value[1].server = <<58,58,49>>
  /\ ret[1].value[1].port = 8388

\* what the text holds after its first '#', None without a '#'
AfterHash(text) == IF find(text, 35) = None THEN None ELSE Some(slice_from(text, find(text, 35)[1] + 1))

\* C20 as stated: the remarks of a Shadowsocks descriptor are the whole text
\* after the first '#', byte for byte (no percent-decoding, no cut at a later
\* '#'), and None when there is no '#'.
C20_Original ==
  /\ (pc = "returned" /\ callee = "parse_server_port_remarks" /\ is_some(ret[1].value)) =>
       ret[1].value[1].remarks = AfterHash(line)
  /\ (pc = "returned" /\ callee = "parse_sip002_ss_format" /\ is_some(ret[1].value)) =>
       ret[1].value[1].remarks = AfterHash(line)

\* the port a token stands for: 25451 for the one literal, else the number the
\* token spells, after percent-decoding when it holds a '%'
PortOfToken(token) ==
  IF token = hk_port THEN Some(25451)
  ELSE IF contains(token, <<37>>)
    THEN (IF percent_decode(token) = None THEN None ELSE parse_u16(percent_decode(token)[1]))
  ELSE parse_u16(token)

\* C21 as stated: the token %F0%9F%87%B0%E9%A6%99%E6%B8%AF is port 25451; any
\* other port token that holds a '%' is percent-decoded and then read as a
\* number ("%38%30" and "8%30" are both 80), failing when the decoded text is
\* not a number; a token without '%' is read as a number as it is.
C21_Original ==
  /\ (pc = "returned" /\ callee = "parse_encoded_port") =>
       ret[1].value = PortOfToken(line)
  /\ \A token \in SegmentPorts :
       (/\ pc = "returned"
        /\ callee = "parse_server_port_remarks"
        /\ line = <<104,58>> \o token) =>
         IF PortOfToken(token) = None THEN ret[1].value = None
         ELSE is_some(ret[1].value) /\ ret[1].value[1].port = PortOfToken(token)[1]

\* 32 or 36 characters, each a hex digit of either case or a hyphen
UuidShape(text) ==
  /\ Len(text) \in {32, 36}
  /\ \A k \in 1..Len(text) : text[k] \in (48..57) \cup (65..70) \cup (97..102) \cup {45}

\* C22 as stated: the decoders accept the credential in front of '@' exactly
\* when, trimmed, it is 32 or 36 characters long and made of hex digits and
\* hyphens only, and return None for any other credential; and
\* validate_trojan_config and validate_vless_config accept a descriptor exactly
\* when its host is not empty, its port is in 1..65535 and its credential has
\* that shape.
C22_Original ==
  /\ (pc = "returned" /\ callee = "extract_uuid") =>
       /\ is_some(ret[1].value) <=> UuidShape(trim(line))
       /\ is_some(ret[1].value) => ret[1].value[1] = trim(line)
  /\ \A credential \in Credentials :
       /\ (/\ pc = "returned"
           /\ callee = "parse_trojan_config"
           /\ line = credential_link(trojan_scheme, credential)) =>
            /\ is_some(ret[1].value) <=> UuidShape(trim(credential))
            /\ is_some(ret[1].value) => ret[1].value[1].password = trim(credential)
       /\ (/\ pc = "returned"
           /\ callee = "parse_vless_config"
           /\ line = credential_link(vless_scheme, credential)) =>
            /\ is_some(ret[1].value) <=> UuidShape(trim(credential))
            /\ is_some(ret[1].value) => ret[1].value[1].uuid = trim(credential)
  /\ (pc = "returned" /\ callee = "validate_trojan_config") =>
       (ret[1].value <=>
          /\ ss_src[1].server # <<>>
          /\ ss_src[1].server_port \in 1..65535
          /\ UuidShape(ss_src[1].password))
  /\ (pc = "returned" /\ callee = "validate_vless_config") =>
       (ret[1].value <=>
          /\ ss_src[1].server # <<>>
          /\ ss_src[1].server_port \in 1..65535
          /\ UuidShape(ss_src[1].uuid))

\* the text, percent-decoded when that can be done
BestEffort(text) == IF percent_decode(text) = None THEN text ELSE percent_decode(text)[1]

\* C23 as stated: when a Trojan or VLESS link has a '#', after a ?query or
\* without one, the remarks are the percent-decoded text after the '#', and
\* the text as it is when it cannot be decoded; a text that cannot be decoded
\* never makes the decode fail.
C23_Original ==
  \A query \in SegmentQueries, remarks \in SegmentRemarks \ {<<>>} :
    (/\ pc = "returned"
     /\ callee = "parse_server_query_remarks"
     /\ line = TrojanHost \o <<58>> \o decimal(TrojanPort) \o query \o remarks) =>
      /\ is_some(ret[1].value)
      /\ ret[1].value[1].remarks = Some(BestEffort(Tail(remarks)))

\* the query has a token of that key
HasKey(query, key) ==
  \E i \in 1..Len(split(query, 38)) :
    split(query, 38)[i] = key \/ starts_with(split(query, 38)[i], key \o <<61>>)

\* one of type, host, path is in the query
TransportKeys(query) ==
  \/ HasKey(query, <<116,121,112,101>>)
  \/ HasKey(query, <<104,111,115,116>>)
  \/ HasKey(query, <<112,97,116,104>>)

\* one of quicSecurity, serviceName, security is in the query
TlsKeys(query) ==
  \/ HasKey(query, <<113,117,105,99,83,101,99,117,114,105,116,121>>)
  \/ HasKey(query, <<115,101,114,118,105,99,101,78,97,109,101>>)
  \/ HasKey(query, <<115,101,99,117,114,105,116,121>>)

\* C24 as stated: the transport of the descriptor parse_vless_config returns
\* is Some exactly when the query has one of the keys type, host, path (with
\* type "tcp" when that key is absent) and its tls is Some exactly when the
\* query has one of quicSecurity, serviceName, security; a sub-object none of
\* whose keys is there is None. The same of the VlessConfig built from
\* parse_query_params on the query alone.
C24_Original ==
  \A query \in VlessQueries :
    /\ (/\ pc = "returned"
        /\ callee = "parse_query_params"
        /\ line = query) =>
         /\ is_some(ret[1].value[1].transport) <=> TransportKeys(query)
         /\ is_some(ret[1].value[1].tls) <=> TlsKeys(query)
         /\ (TransportKeys(query) /\ ~HasKey(query, <<116,121,112,101>>)) =>
              ret[1].value[1].transport[1].type = tcp
    /\ (/\ pc = "returned"
        /\ callee = "parse_vless_config"
        /\ query # <<>>
        /\ line = credential_link(vless_scheme, TrojanUuid) \o <<63>> \o query) =>
         /\ is_some(ret[1].value)
         /\ is_some(ret[1].value[1].transport) <=> TransportKeys(query)
         /\ is_some(ret[1].value[1].tls) <=> TlsKeys(query)

----------------------------------------------------------------------------
(* node_parser.rs: split_by_lines, parse_lines_to_nodes, parse_to_nodes *)

MaxLines == 3

\* str::lines: the pieces between line feeds, without the line feed and without
\* one carriage return before it; text after the last line feed is a line as
\* it is, and no line follows a closing line feed
lines(text) ==
  the({ the({ [k \in 1..Cardinality(starts) |->
                the({ the({ IF e <= Len(text) /\ e > a /\ text[e - 1] = 13
                            THEN SubSeq(text, a, e - 2)
                            ELSE SubSeq(text, a, e - 1)
                            : e \in {IF \E i \in lf : i >= a
                                     THEN SetMin({i \in lf : i >= a})
                                     ELSE Len(text) + 1} })
                      : a \in {CHOOSE a \in starts :
                                 Cardinality({b \in starts : b < a}) = k - 1} })]
              : starts \in {{a \in 1..Len(text) : a = 1 \/ (a - 1) \in lf}} })
        : lf \in {{i \in 1..Len(text) : text[i] = 10}} })

\* variant of split_by_lines: the lines that are kept are trimmed
split_by_lines_mut_trimmed(text) ==
  the({ [k \in 1..Len(kept) |-> trim(kept[k])]
        : kept \in {SelectSeq(lines(text), LAMBDA l : trim(l) # <<>>)} })

\* split_by_lines: the lines whose trimmed text is not empty, as they are
split_by_lines(text) == SelectSeq(lines(text), LAMBDA l : trim(l) # <<>>)

\* parse_lines_to_nodes: parse_line_to_node of each line, in order
parse_lines_to_nodes(ls) == [k \in 1..Len(ls) |-> parse_line_to_node(ls[k]).node]

\* parse_to_nodes
parse_to_nodes(text) ==
  the({ parse_lines_to_nodes(ls) : ls \in {split_by_lines(text)} })

\* a link parse_vmess_config decodes, and the same after a space
ValidLink == vmess_scheme \o encode(STANDARD, to_string(BaseConfig))

SpacedLink == <<32>> \o ValidLink

\* the lines a text is made of: the empty line, "  ", " a ", "x vmess", a
\* link, and a link after a space
LinePool ==
  { <<>>, <<32,32>>, <<32,97,32>>, <<120,32,118,109,101,115,115>>,
    ValidLink, SpacedLink }

\* the line endings of a text
LineEndings == { <<10>>, <<13,10>> }

\* the text of the lines ls, each ended by eol, the last one only when closed
text_of(ls, eol, closed) ==
  flatten([k \in 1..Len(ls) |->
             IF k < Len(ls) \/ closed THEN ls[k] \o eol ELSE ls[k]])

InitLines ==
  /\ pc = "text"
  /\ src_lines \in BSeq(LinePool, MaxLines)
  /\ \E eol \in LineEndings, closed \in BOOLEAN : input = text_of(src_lines, eol, closed)
  /\ nodes = <<>>
  /\ files = <<>>
  /\ ops = <<>>
  /\ fates = <<>>
  /\ tasks = <<>>
  /\ saves = <<>>
  /\ vmess_src = None
  /\ line = <<>>
  /\ node = None
  /\ attempted = <<>>
  /\ decoded = None
  /\ callee = ""
  /\ ret = None
  /\ ss_src = None
  /\ cache_dir = <<>>
  /\ contents = <<>>
  /\ configs = <<>>
  /\ proxies = <<>>
  /\ proxy_groups = <<>>

\* a call of parse_to_nodes on the text
call_parse_to_nodes ==
  /\ pc = "text"
  /\ nodes' = parse_to_nodes(input)
  /\ pc' = "nodes"
  /\ UNCHANGED <<src_lines, input>>
  /\ UNCHANGED store_vars
  /\ UNCHANGED download_vars
  /\ UNCHANGED merge_vars
  /\ UNCHANGED parse_vars
  /\ UNCHANGED call_vars

NextLines == call_parse_to_nodes

SpecLines == InitLines /\ [][NextLines]_vars

\* the lines of src_lines that are not blank, in order
NonBlank(ls) == SelectSeq(ls, LAMBDA l : trim(l) # <<>>)

\* C25: parse_to_nodes returns one Node per line of the text that is not
\* empty and not white space only, in the order of the lines: the k-th Node is
\* what parse_line_to_node makes of the k-th such line, text as it is in the
\* input (not trimmed); blank lines leave no Node.
C25_OneNodePerLine ==
  pc = "nodes" =>
    /\ Len(nodes) = Len(NonBlank(src_lines))
    /\ \A k \in 1..Len(nodes) : nodes[k] = parse_line_to_node(NonBlank(src_lines)[k]).node

\* a text with a blank line and a link after a space, whose Node is tagged
\* Vmess and has no descriptor, next to a link that has one
C25_Witness ==
  /\ pc = "nodes"
  /\ \E i \in 1..Len(src_lines) : trim(src_lines[i]) = <<>>
  /\ \E i \in 1..Len(src_lines) : src_lines[i] = SpacedLink
  /\ Len(nodes) = 2
  /\ Len(src_lines) = 3
  /\ \E k \in 1..2 : nodes[k] = [protocol |-> "Vmess", vmess_config |-> None]
  /\ \E k \in 1..2 : is_some(nodes[k].vmess_config)

----------------------------------------------------------------------------
(* config_manager.rs: read_config_file, write_config_file, delete_config_file
   on the directory ConfigManager::new leaves. A file name and a path are
   sequences of components; the file system finds an entry by the path with
   its "." components left out. *)

MaxOps == 3

\* Result values
Ok(v) == <<"Ok", v>>

Err == <<"Err">>

\* get_config_dir, from the home directory
ConfigDir == <<".config", "chiaotu">>

\* config_file_path: config_dir.join(filename)
config_file_path(filename) == ConfigDir \o filename

\* the entry a path leads to: "." stays in the directory it is in
resolve(path) == SelectSeq(path, LAMBDA c : c # ".")

\* what a path of the config directory holds
Absent == <<"absent">>

Directory == <<"dir">>

RegularFile(content) == <<"file", content>>

\* the names the store is called with: "a", "./a", "b" and "resources"
FileNames == { <<"a">>, <<".", "a">>, <<"b">>, <<"resources">> }

\* the contents written: "x" and "y"
FileContents == { <<120>>, <<121>> }

\* ConfigManager::new: extract_resources makes the directory resources
new_config_dir ==
  [p \in {resolve(config_file_path(n)) : n \in FileNames} |->
     IF p = ConfigDir \o <<"resources">> THEN Directory ELSE Absent]

\* Path::exists
exists(fs, path) == fs[resolve(path)] # Absent

\* read_config_file: Ok("") without the entry; File::open opens a directory,
\* read_to_string on it fails
read_config_file(fs, filename) ==
  the({ IF ~exists(fs, file_path)
        THEN Ok(<<>>)
        ELSE IF fs[resolve(file_path)] = Directory
        THEN Err
        ELSE Ok(fs[resolve(file_path)][2])
        : file_path \in {config_file_path(filename)} })

\* write_config_file: File::create fails on a directory, else the file holds
\* the content
write_config_file(fs, filename, content) ==
  the({ IF fs[resolve(file_path)] = Directory
        THEN [files |-> fs, result |-> Err]
        ELSE [files |-> [fs EXCEPT ![resolve(file_path)] = RegularFile(content)],
              result |-> Ok(<<>>)]
        : file_path \in {config_file_path(filename)} })

\* variant of delete_config_file: the entry is left where it is
delete_config_file_mut_keep(fs, filename) ==
  the({ IF exists(fs, file_path) /\ fs[resolve(file_path)] = Directory
        THEN [files |-> fs, result |-> Err]
        ELSE [files |-> fs, result |-> Ok(<<>>)]
        : file_path \in {config_file_path(filename)} })

\* delete_config_file: remove_file of an entry that exists (it fails on a
\* directory), Ok without the entry
delete_config_file(fs, filename) ==
  the({ IF ~exists(fs, file_path)
        THEN [files |-> fs, result |-> Ok(<<>>)]
        ELSE IF fs[resolve(file_path)] = Directory
        THEN [files |-> fs, result |-> Err]
        ELSE [files |-> [fs EXCEPT ![resolve(file_path)] = Absent], result |-> Ok(<<>>)]
        : file_path \in {config_file_path(filename)} })

InitStore ==
  /\ pc = "store"
  /\ files = new_config_dir
  /\ ops = <<>>
  /\ src_lines = <<>>
  /\ input = <<>>
  /\ nodes = <<>>
  /\ fates = <<>>
  /\ tasks = <<>>
  /\ saves = <<>>
  /\ vmess_src = None
  /\ line = <<>>
  /\ node = None
  /\ attempted = <<>>
  /\ decoded = None
  /\ callee = ""
  /\ ret = None
  /\ ss_src = None
  /\ cache_dir = <<>>
  /\ contents = <<>>
  /\ configs = <<>>
  /\ proxies = <<>>
  /\ proxy_groups = <<>>

\* a call of the store leaves everything else as it is
store_frame ==
  /\ pc' = pc
  /\ UNCHANGED lines_vars
  /\ UNCHANGED download_vars
  /\ UNCHANGED merge_vars
  /\ UNCHANGED parse_vars
  /\ UNCHANGED call_vars

\* a call of write_config_file
call_write_config_file ==
  /\ pc = "store"
  /\ Len(ops) < MaxOps
  /\ \E filename \in FileNames, content \in FileContents :
       \E done \in {write_config_file(files, filename, content)} :
         /\ files' = done.files
         /\ ops' = Append(ops, [fn |-> "write_config_file", filename |-> filename,
                                content |-> content, result |-> done.result])
  /\ store_frame

\* a call of delete_config_file
call_delete_config_file ==
  /\ pc = "store"
  /\ Len(ops) < MaxOps
  /\ \E filename \in FileNames :
       \E done \in {delete_config_file(files, filename)} :
         /\ files' = done.files
         /\ ops' = Append(ops, [fn |-> "delete_config_file", filename |-> filename,
                                content |-> <<>>, result |-> done.result])
  /\ store_frame

\* a call of read_config_file
call_read_config_file ==
  /\ pc = "store"
  /\ Len(ops) < MaxOps
  /\ \E filename \in FileNames :
       ops' = Append(ops, [fn |-> "read_config_file", filename |-> filename,
                           content |-> <<>>, result |-> read_config_file(files, filename)])
  /\ files' = files
  /\ store_frame

NextStore == call_write_config_file \/ call_delete_config_file \/ call_read_config_file

SpecStore == InitStore /\ [][NextStore]_vars

\* the calls before the k-th that write or delete under a name for which same
\* holds with the name filename
Changes(k, filename, same(_, _)) ==
  {j \in 1..(k - 1) : /\ ops[j].fn # "read_config_file"
                      /\ same(ops[j].filename, filename)}

\* what the claim lets the k-th call, a read, return: the content of the last
\* write among the calls Changes names, "" when that call is a delete or when
\* there is none
Expected(k, same(_, _)) ==
  the({ IF changes = {} \/ ops[SetMax(changes)].fn = "delete_config_file"
        THEN Ok(<<>>)
        ELSE Ok(ops[SetMax(changes)].content)
        : changes \in {Changes(k, ops[k].filename, same)} })

SameName(m, n) == m = n

SamePath(m, n) == resolve(config_file_path(m)) = resolve(config_file_path(n))

\* the name leads to a directory of the config directory
NamesDirectory(n) == new_config_dir[resolve(config_file_path(n))] = Directory

----------------------------------------------------------------------------
(* downloader.rs: download_save_files. One task per URL; join_all polls the
   tasks on the caller's thread, each as far as its next await, in the order
   the answers come in. A panic in a task unwinds through join_all and out of
   download_save_files. *)

MaxUrls == 2

\* what becomes of a URL: all goes well, send() fails, the status is not a
\* success, text() fails, save_fn returns Err
Fates == { "ok", "send_err", "status", "text_err", "save_err" }

InitDownload ==
  /\ pc = "client"
  /\ fates \in BSeq(Fates, MaxUrls)
  /\ tasks = [i \in 1..Len(fates) |-> "start"]
  /\ saves = [i \in 1..Len(fates) |-> 0]
  /\ ret = None
  /\ callee = "download_save_files"
  /\ ss_src = None
  /\ src_lines = <<>>
  /\ input = <<>>
  /\ nodes = <<>>
  /\ files = <<>>
  /\ ops = <<>>
  /\ vmess_src = None
  /\ line = <<>>
  /\ node = None
  /\ attempted = <<>>
  /\ decoded = None
  /\ cache_dir = <<>>
  /\ contents = <<>>
  /\ configs = <<>>
  /\ proxies = <<>>
  /\ proxy_groups = <<>>

\* a step of download_save_files leaves everything else as it is
download_frame ==
  /\ UNCHANGED <<fates, callee, ss_src>>
  /\ UNCHANGED lines_vars
  /\ UNCHANGED store_vars
  /\ UNCHANGED merge_vars
  /\ UNCHANGED parse_vars

\* the call ends by a panic
panics ==
  /\ ret' = Some(Panicked)
  /\ pc' = "returned"

\* Client::builder().user_agent(..).build()?: the error is returned, or the
\* tasks are made and join_all is awaited
build_client ==
  /\ pc = "client"
  /\ \/ /\ ret' = Some(Returned(Err))
        /\ pc' = "returned"
     \/ /\ ret' = ret
        /\ pc' = "join"
  /\ UNCHANGED <<tasks, saves>>
  /\ download_frame

\* a task up to response.text(): send().await.unwrap(), then the status test
\* with its panic!
task_send ==
  /\ pc = "join"
  /\ \E i \in 1..Len(tasks) :
       /\ tasks[i] = "start"
       /\ IF fates[i] \in {"send_err", "status"}
          THEN /\ panics
               /\ tasks' = tasks
          ELSE /\ tasks' = [tasks EXCEPT ![i] = "fetched"]
               /\ UNCHANGED <<pc, ret>>
  /\ saves' = saves
  /\ download_frame

\* the rest of a task: text().await.unwrap(), then save_fn(..).unwrap()
task_save ==
  /\ pc = "join"
  /\ \E i \in 1..Len(tasks) :
       /\ tasks[i] = "fetched"
       /\ IF fates[i] = "text_err"
          THEN /\ panics
               /\ UNCHANGED <<tasks, saves>>
          ELSE /\ saves' = [saves EXCEPT ![i] = saves[i] + 1]
               /\ IF fates[i] = "save_err"
                  THEN /\ panics
                       /\ tasks' = tasks
                  ELSE /\ tasks' = [tasks EXCEPT ![i] = "done"]
                       /\ UNCHANGED <<pc, ret>>
  /\ download_frame

\* join_all is ready when every task is; then Ok(())
join_return ==
  /\ pc = "join"
  /\ \A i \in 1..Len(tasks) : tasks[i] = "done"
  /\ ret' = Some(Returned(Ok(<<>>)))
  /\ pc' = "returned"
  /\ UNCHANGED <<tasks, saves>>
  /\ download_frame

NextDownload == build_client \/ task_send \/ task_save \/ join_return

SpecDownload == InitDownload /\ [][NextDownload]_vars

\* C27 as stated: download_save_files never ends by a panic; when the request
\* of some URL fails, or its status is not a success, or its save callback
\* returns an error, the call returns Err; and it returns Ok(()) only with the
\* save callback called exactly once for every URL.
C27_Original ==
  pc = "returned" =>
    /\ ~ret[1].panic
    /\ (\E i \in 1..Len(fates) : fates[i] \in {"send_err", "status", "save_err"}) =>
         ret[1].value = Err
    /\ ret[1].value = Ok(<<>>) => \A i \in 1..Len(fates) : saves[i] = 1

----------------------------------------------------------------------------
(* parse_line_to_node: where the descriptor of a Node comes from *)

\* C28: the Node parse_line_to_node makes of a line has a descriptor only if
\* its protocol is Vmess and the line as given, not trimmed, starts with
\* "vmess://". An Unidentified Node has none, and neither has a Node tagged
\* Vmess for the word in its text or for a prefix that follows white space.
C28_DescriptorNeedsPrefix ==
  pc \in {"parsed", "decoded"} =>
    /\ is_some(node[1].vmess_config) =>
         /\ node[1].protocol = "Vmess"
         /\ starts_with(line, vmess_scheme)
    /\ node[1].protocol = "Unidentified" => node[1].vmess_config = None
    /\ (node[1].protocol = "Vmess" /\ ~starts_with(line, vmess_scheme)) =>
         node[1].vmess_config = None

\* a link after a space: tagged Vmess, no descriptor, though the trimmed text
\* is a link parse_vmess_config decodes
C28_Witness ==
  /\ pc = "parsed"
  /\ starts_with(line, <<32>> \o vmess_scheme)
  /\ node[1] = [protocol |-> "Vmess", vmess_config |-> None]
  /\ is_some(parse_vmess_config(trim(line)).config)

----------------------------------------------------------------------------
(* create_groups_by_country: the groups as a partition of the proxy list *)

\* the names of the list are pairwise distinct
DistinctNames == \A i, j \in 1..Len(proxies) : proxies[i].name = proxies[j].name => i = j

\* the name reaches the branch that pushes to no group
ReachesExclusion(name) == Matching(name) = {} /\ Excluded(name)

\* the number of members of the groups at the indices I
RECURSIVE TotalMembers(_)
TotalMembers(I) ==
  IF I = {} THEN 0
  ELSE Len(proxy_groups[SetMin(I)].proxies) + TotalMembers(I \ {SetMin(I)})

\* the place of a name in the proxy list
PlaceOf(name) == CHOOSE i \in 1..Len(proxies) : proxies[i].name = name

\* C29: for a proxy list with pairwise distinct names, every name is a member
\* of at most one of the url-test groups create_groups_by_country returns,
\* there are eight of these groups and their sizes together with the number of
\* excluded names (the names pushed to no group) make the number of proxies,
\* and the members of each url-test group stand in the order of the list.
C29_Partition ==
  (pc = "grouped" /\ DistinctNames) =>
    /\ \A name \in InputNames : Cardinality(UrlTestGroupsWith(name)) <= 1
    /\ Cardinality(GroupsOf(url_test)) = 8
    /\ TotalMembers(GroupsOf(url_test))
         + Cardinality({i \in 1..Len(proxies) : ReachesExclusion(proxies[i].name)})
         = Len(proxies)
    /\ \A i \in GroupsOf(url_test) :
         /\ Members(proxy_groups[i]) \subseteq InputNames
         /\ \A a, b \in 1..Len(proxy_groups[i].proxies) :
              a < b => PlaceOf(proxy_groups[i].proxies[a]) < PlaceOf(proxy_groups[i].proxies[b])

\* two proxies of distinct names in one group, in the order of the list
C29_Witness ==
  /\ pc = "grouped"
  /\ DistinctNames
  /\ Len(proxies) = 2
  /\ \E i \in GroupsOf(url_test) :
       proxy_groups[i].proxies = <<proxies[1].name, proxies[2].name>>

\* the names of the groups, in output order
GroupNames == [i \in 1..Len(proxy_groups) |-> proxy_groups[i].name]

\* C30: create_groups_by_country returns groups of the same twelve names in
\* the same order for every proxy list; every member of a select group other
\* than DIRECT is the name of a url-test group of the output, and every member
\* of a url-test group is the name of a proxy of the list.
C30_NoDanglingMember ==
  pc = "grouped" =>
    /\ GroupNames = << ManualSelect, Google, Microsoft, Apple, Germany, Taiwan, HongKong,
                       Japan, Singapore, US, UK, Other >>
    /\ \A i \in GroupsOf(select_type) :
         \A m \in Members(proxy_groups[i]) \ {DIRECT} :
           \E j \in GroupsOf(url_test) : proxy_groups[j].name = m
    /\ \A i \in GroupsOf(url_test) : Members(proxy_groups[i]) \subseteq InputNames

\* a list with a proxy named DIRECT: it is a member of a url-test group, other
\* url-test groups are empty and still named by the select groups
C30_Witness ==
  /\ pc = "grouped"
  /\ \E i \in GroupsOf(url_test) : DIRECT \in Members(proxy_groups[i])
  /\ \E j \in GroupsOf(url_test) :
       /\ proxy_groups[j].proxies = <<>>
       /\ \A i \in GroupsOf(select_type) : proxy_groups[j].name \in Members(proxy_groups[i])

====
